---- MODULE Spec2Model ----
(***************************************************************************)
(* A model of boldsoftware/treesitter: the markdown composite tree         *)
(* (ParseCtx), the query predicate layer (NewQuery, FilterPredicates) and  *)
(* the cancellable Parser.Parse.                                           *)
(***************************************************************************)
EXTENDS Integers, Sequences, FiniteSets, TLC

\* nil pointer, null Node, absent value
None == "none"

(***************************************************************************)
(* Bounds                                                                  *)
(***************************************************************************)
\* length in bytes of the single-anchor documents handed to ParseCtx
DocLen == 8
\* bytes per line of those documents (row/column of a byte offset)
LineLen == 5
\* largest number of named children of an anchor node
MaxChildren == 2
\* largest number of anchor matches of one primary tree
MaxAnchors == 2
\* length in bytes of the documents with several anchors
EditLen == 3
\* number of ParseCtx calls in one behaviour
MaxCalls == 2
\* largest number of arguments of a predicate invocation handed to NewQuery
MaxArgs == 3
\* largest number of predicate invocations of a pattern with several of them
MaxPreds == 2
\* largest number of captures of a match
MaxCaptures == 3
\* number of Parse calls made on one parser
MaxParses == 2
\* largest byte offset of an EditInput
MaxEditByte == 6
\* largest length in bytes of a query text the engine rejects
MaxPattern == 3
\* number of concurrent ParseInput calls
MaxInputs == 2
\* largest number of callReadFunc calls the engine makes in one ParseInput
MaxReads == 2

(***************************************************************************)
(* State                                                                   *)
(***************************************************************************)
VARIABLES
  \* ---- markdown composite tree (src/unnamed/part_008) ----
  cpc,        \* position in ParseCtx: "idle" or "matching" (inside the NextMatch loop)
  prev,       \* the last MarkdownTree returned to the caller (NilMd when none)
  oldTree,    \* the oldTree argument of the running ParseCtx call
  res,        \* the MarkdownTree under construction
  idx,        \* ParseCtx's idx counter
  pending,    \* captures the query cursor has still to yield, in match order
  lastCall,   \* the inline parser p: anchor node, included ranges and old tree of its last Parse
  oldUsed,    \* old tree handed to the secondary parse of each anchor, in order
  ret,        \* the value ParseCtx returned last: [tree, err]
  perr,       \* the err of the last p.Parse inside ParseCtx ("none" when it gave a tree)
  nextId,     \* allocator of tree and node identities
  ncalls,     \* ParseCtx calls started
  block,      \* the primary tree of the last successful primary parse: identity, named
              \* nodes, and the identities of the nodes the anchor query captures
  anchored,   \* per secondary parse of the running call: the anchor node and the tree it gave
  visited     \* the calls of the visitor in the last Iter since ParseCtx was called

cvars == <<cpc, prev, oldTree, res, idx, pending, lastCall, oldUsed, ret, perr, nextId, ncalls,
           block, anchored, visited>>

VARIABLES
  \* ---- queries and predicates (src/treesitter.go) ----
  qpc,        \* "start", "compiled" (NewQuery returned a Query), "failed", "filtered", "panicked"
  qsrc,       \* the predicate steps of each pattern of the text handed to NewQuery
  query,      \* the Query returned by NewQuery: the steps of each pattern ([ok |-> FALSE] for nil)
  qerr,       \* the error returned by NewQuery
  qpattern,   \* the bytes of the text handed to NewQuery, when the engine rejected it
  fmatch,     \* the match handed to FilterPredicates
  finput,     \* the source bytes handed to FilterPredicates
  fres,       \* the QueryMatch returned by FilterPredicates
  fevals      \* indices of the predicate invocations FilterPredicates evaluated, in order

qvars == <<qpc, qsrc, query, qerr, qpattern, fmatch, finput, fres, fevals>>

VARIABLES
  \* ---- Parser.Parse and its context watchers (src/treesitter.go) ----
  ppc,        \* position of the caller: "idle", or inside Parse: "engine", "close", "convert", "reset"
  pcall,      \* number of Parse calls started; the running call is number pcall
  hasLang,    \* the engine's parser has a language
  opLimit,    \* an operation limit is configured (SetOperationLimit)
  cancel,     \* *p.cancel, the cancellation flag the engine polls
  cancelBy,   \* the call whose watcher stored the 1 that is in the flag (0 when none)
  ctx,        \* per call: [cancellable, cancelled, late] of the context it was given
  watcher,    \* per call: "none", "select", "store", "exit"
  complete,   \* per call: parseComplete is closed
  tsTree,     \* what the engine returned to the running call: [tree, cause, by]
  presult,    \* per call: what Parse returned, [tree, err]
  resumable,  \* the engine keeps the state of an interrupted parse
  resumed     \* per call: the engine resumed an interrupted parse

pvars == <<ppc, pcall, hasLang, opLimit, cancel, cancelBy, ctx, watcher, complete, tsTree,
           presult, resumable, resumed>>

VARIABLES
  \* ---- Tree.Edit, Node.Edit (src/treesitter.go) ----
  epc,        \* "idle", "edited" (the engine received a descriptor), "panicked"
  tclosed,    \* the Tree was closed (t.c == nil)
  einput,     \* the EditInput of the last Edit call
  etarget,    \* "tree" for Tree.Edit, "node" for Node.Edit
  tsEdit      \* the TSInputEdit handed to ts_tree_edit / ts_node_edit

evars == <<epc, tclosed, einput, etarget, tsEdit>>

VARIABLES
  \* ---- MarkdownTree.Edit (src/unnamed/part_008) ----
  mpc,        \* "idle", "edited" (MarkdownTree.Edit returned), "panicked"
  mclosed,    \* identities of the trees of the composite that were closed
  minput,     \* the EditInput of the last MarkdownTree.Edit
  mlog,       \* the calls of ts_tree_edit made by the last MarkdownTree.Edit, in order: [tree, edit]
  mbefore,    \* the composite MarkdownTree.Edit was called on, before the call
  mafter      \* the same composite after the call

mvars == <<mpc, mclosed, minput, mlog, mbefore, mafter>>

VARIABLES
  \* ---- the registry of read callbacks (src/treesitter.go) ----
  readFuncs,  \* the registry of read callbacks: [funcs |-> the map, count |-> the counter]
  intSize,    \* the width in bits of Go's int in the build: 32 or 64
  ipc,        \* per ParseInput call: "start", "engine", "unregister", "convert", "returned", "panicked"
  funcID,     \* per call: the id that register returned to it
  lookup,     \* per call: the ReadFunc its last callReadFunc got from the registry
  nreads,     \* per call: the number of callReadFunc calls the engine has made
  itree,      \* per call: whether the engine returned a tree
  iresult     \* per call: what ParseInput returned

rvars == <<readFuncs, intSize, ipc, funcID, lookup, nreads, itree, iresult>>

vars == <<cvars, qvars, pvars, evars, mvars, rvars>>

(***************************************************************************)
(* Nodes and ranges                                                        *)
(***************************************************************************)
\* row/column of a byte offset
PointOf(b) == [Row |-> b \div LineLen, Column |-> b % LineLen]

\* Node.Range
Range(n) == [StartPoint |-> PointOf(n.StartByte), EndPoint |-> PointOf(n.EndByte),
             StartByte |-> n.StartByte, EndByte |-> n.EndByte]

RECURSIVE SpanLists(_, _, _)
\* lists of at most n non-empty spans inside [lo, hi], in increasing byte order, disjoint
SpanLists(lo, hi, n) ==
  IF n = 0 THEN {<<>>}
  ELSE {<<>>} \cup
       UNION {UNION {{<<[StartByte |-> a, EndByte |-> b]>> \o rest : rest \in SpanLists(b, hi, n - 1)} :
                       b \in (a + 1)..hi} :
                a \in lo..(hi - 1)}

\* the null Node
NoNode == [StartByte |-> 0, EndByte |-> 0, children |-> <<>>]

\* the (inline) nodes that start at or after byte lo of a document of len bytes:
\* a non-empty span and at most maxch named children, which lie inside the span
AnchorNodes(lo, len, maxch) ==
  UNION {UNION {{[StartByte |-> s, EndByte |-> e, children |-> cs] : cs \in SpanLists(s, e, maxch)} :
                  e \in (s + 1)..len} :
           s \in lo..(len - 1)}

RECURSIVE AnchorLists(_, _, _, _)
\* lists of at most n anchor nodes in byte order, disjoint
AnchorLists(lo, len, maxch, n) ==
  IF n = 0 THEN {<<>>}
  ELSE {<<>>} \cup
       UNION {{<<a>> \o rest : rest \in AnchorLists(a.EndByte, len, maxch, n - 1)} :
                a \in AnchorNodes(lo, len, maxch)}

\* documents with one anchor region: the captures of the anchor query
CoverDocs == {<<a>> : a \in AnchorNodes(0, DocLen, MaxChildren)}

\* documents with up to MaxAnchors anchor regions, in byte order
EditDocs == AnchorLists(0, EditLen, 1, MaxAnchors)

\* Node.NamedChildCount, Node.NamedChild
NamedChildCount(n) == Len(n.children)
NamedChild(n, i) == n.children[i + 1]

(***************************************************************************)
(* Queries: predicate steps, string and capture tables                     *)
(***************************************************************************)
QueryPredicateStepTypeDone == 0
QueryPredicateStepTypeCapture == 1
QueryPredicateStepTypeString == 2

\* QueryPredicateStep
Step(t, v) == [Type |-> t, ValueId |-> v]

\* the string table of the compiled queries, as the engine stores it (bytes)
StringBytes ==
  << <<"e", "q", "?">>,
     <<"n", "o", "t", "-", "e", "q", "?">>,
     <<"m", "a", "t", "c", "h", "?">>,
     <<"n", "o", "t", "-", "m", "a", "t", "c", "h", "?">>,
     <<"s", "e", "t", "!">>,
     <<"i", "s", "?">>,
     <<"i", "s", "-", "n", "o", "t", "?">>,
     <<"a", "n", "y", "-", "o", "f", "?">>,
     <<"r", "e", "d">>,
     <<"^", "r">>,
     <<"[">> >>

\* the capture names of the compiled queries
CaptureNames == <<"a", "b">>

RECURSIVE GoString(_)
\* C.GoStringN: the Go string of a byte sequence
GoString(bs) == IF bs = <<>> THEN "" ELSE Head(bs) \o GoString(Tail(bs))

\* Query.StringValueForId, Query.CaptureNameForId
StringValueForId(id) == GoString(StringBytes[id + 1])
CaptureNameForId(id) == CaptureNames[id + 1]

\* the value id of a string of the table
StringId(str) == CHOOSE id \in 0..(Len(StringBytes) - 1) : StringValueForId(id) = str

CaptureStep(id) == Step(QueryPredicateStepTypeCapture, id)
StringStep(str) == Step(QueryPredicateStepTypeString, StringId(str))
DoneStep == Step(QueryPredicateStepTypeDone, 0)

RECURSIVE SplitLoop(_, _, _)
\* the loop of splitPredicates: a group is closed by each Done step, and steps
\* after the last Done step are dropped
SplitLoop(steps, currentSteps, predicateSteps) ==
  IF steps = <<>> THEN predicateSteps
  ELSE LET cur == Append(currentSteps, Head(steps))
       IN IF Head(steps).Type = QueryPredicateStepTypeDone
          THEN SplitLoop(Tail(steps), <<>>, Append(predicateSteps, cur))
          ELSE SplitLoop(Tail(steps), cur, predicateSteps)

splitPredicates(steps) == SplitLoop(steps, <<>>, <<>>)

\* Query.PatternCount, Query.PredicatesForPattern (patternIndex is 0-based)
PatternCount(q) == Len(q.patterns)
PredicatesForPattern(q, patternIndex) == splitPredicates(q.patterns[patternIndex + 1])

(***************************************************************************)
(* Inputs of NewQuery                                                      *)
(***************************************************************************)
RECURSIVE SeqsUpTo(_, _)
\* the sequences of at most n elements of S
SeqsUpTo(S, n) ==
  IF n = 0 THEN {<<>>}
  ELSE LET shorter == SeqsUpTo(S, n - 1)
       IN shorter \cup {Append(x, e) : x \in {y \in shorter : Len(y) = n - 1}, e \in S}

\* the steps of one predicate invocation: first step, arguments, Done
Invocation(head, args) == <<head>> \o args \o <<DoneStep>>

Operators == {"eq?", "not-eq?", "match?", "not-match?", "set!", "is?", "is-not?", "any-of?"}

\* first steps: an operator name
HeadSteps == {StringStep(op) : op \in Operators}

\* arguments: a capture reference or a literal string
ArgSteps == {CaptureStep(0), StringStep("red")}

\* every invocation with at most MaxArgs arguments
Invocations == {Invocation(h, args) : h \in HeadSteps, args \in SeqsUpTo(ArgSteps, MaxArgs)}

\* invocations that appear together with others in one pattern
CoreInvocations ==
  { Invocation(StringStep("eq?"), <<CaptureStep(0), CaptureStep(1)>>),
    Invocation(StringStep("match?"), <<CaptureStep(0), StringStep("^r")>>),
    Invocation(StringStep("any-of?"), <<CaptureStep(0), StringStep("red")>>),
    Invocation(StringStep("eq?"), <<CaptureStep(0)>>) }

\* match?/not-match? on a capture with the regular expression ^r, or with a
\* second argument that is not a regular expression
RegexInvocations ==
  {Invocation(StringStep(op), <<CaptureStep(c), StringStep(re)>>) :
     op \in {"match?", "not-match?"}, c \in {0, 1}, re \in {"^r", "["}}

\* eq?/not-eq? on two captures, in both orders
EqInvocations ==
  {Invocation(StringStep(op), <<CaptureStep(x), CaptureStep(y)>>) :
     op \in {"eq?", "not-eq?"}, x \in {0, 1}, y \in {0, 1}}

\* invocations whose first step is a capture reference
CaptureHeadInvocations ==
  {Invocation(CaptureStep(0), args) :
     args \in {<<>>, <<CaptureStep(1)>>, <<StringStep("red")>>,
               <<CaptureStep(0), StringStep("red")>>}}

RECURSIVE Flatten(_)
Flatten(ss) == IF ss = <<>> THEN <<>> ELSE Head(ss) \o Flatten(Tail(ss))

\* the steps of the patterns of a query text: one pattern with no predicate,
\* with one invocation or with several; or two patterns
QueryTexts ==
  {<<Flatten(ps)>> : ps \in SeqsUpTo(CoreInvocations, MaxPreds)}
    \cup {<<p>> : p \in Invocations \cup RegexInvocations \cup EqInvocations
                          \cup CaptureHeadInvocations}
    \cup {<<p1, p2>> : p1 \in CoreInvocations, p2 \in CoreInvocations \cup {<<>>}}

(***************************************************************************)
(* NewQuery: validation of the predicates                                  *)
(***************************************************************************)
\* a nil error; the other error values carry their dynamic type: "errorString"
\* for the values of errors.New and fmt.Errorf, "QueryError" for *QueryError
NoError == [type |-> "none", kind |-> "none", operator |-> "", expected |-> "", got |-> ""]

\* fmt.Errorf("wrong number of arguments to `#%s` predicate. Expected %s, got %d")
WrongArgs(operator, expected, n) ==
  [type |-> "errorString", kind |-> "wrong number of arguments", operator |-> operator,
   expected |-> expected, got |-> ToString(n)]

\* fmt.Errorf("<which> argument of `#%s` predicate must be a <what>. Got %s")
WrongKind(kind, operator, step) ==
  [type |-> "errorString", kind |-> kind, operator |-> operator, expected |-> "",
   got |-> StringValueForId(step.ValueId)]

\* the set!/is?/is-not? case of NewQuery (Go's steps[i] is steps[i + 1] here)
CheckProperty(operator, steps) ==
  IF Len(steps) < 3 \/ Len(steps) > 4
  THEN WrongArgs(operator, "1 or 2", Len(steps) - 2)
  ELSE IF steps[2].Type # QueryPredicateStepTypeString
  THEN WrongKind("first argument must be a string", operator, steps[2])
  ELSE IF Len(steps) > 2 /\ steps[3].Type # QueryPredicateStepTypeString
  THEN WrongKind("second argument must be a string", operator, steps[3])
  ELSE NoError

\* the eq?/not-eq? case without the argument count test
CheckEqNoArity(operator, steps) ==
  IF Len(steps) >= 2 /\ steps[2].Type # QueryPredicateStepTypeCapture
  THEN WrongKind("first argument must be a capture", operator, steps[2])
  ELSE NoError

\* the eq?/not-eq? case of NewQuery
CheckEq(operator, steps) ==
  IF Len(steps) # 4
  THEN WrongArgs(operator, "2", Len(steps) - 2)
  ELSE IF steps[2].Type # QueryPredicateStepTypeCapture
  THEN WrongKind("first argument must be a capture", operator, steps[2])
  ELSE NoError

\* the match?/not-match? case without the test of the second argument
CheckMatchNoSecond(operator, steps) ==
  IF Len(steps) # 4
  THEN WrongArgs(operator, "2", Len(steps) - 2)
  ELSE IF steps[2].Type # QueryPredicateStepTypeCapture
  THEN WrongKind("first argument must be a capture", operator, steps[2])
  ELSE NoError

\* the match?/not-match? case of NewQuery
CheckMatch(operator, steps) ==
  IF Len(steps) # 4
  THEN WrongArgs(operator, "2", Len(steps) - 2)
  ELSE IF steps[2].Type # QueryPredicateStepTypeCapture
  THEN WrongKind("first argument must be a capture", operator, steps[2])
  ELSE IF steps[3].Type # QueryPredicateStepTypeString
  THEN WrongKind("second argument must be a string", operator, steps[3])
  ELSE NoError

\* the switch on the operator: no case, and so no error, for any other operator
CheckOperator(operator, steps) ==
  IF operator \in {"eq?", "not-eq?"} THEN CheckEq(operator, steps)
  ELSE IF operator \in {"match?", "not-match?"} THEN CheckMatch(operator, steps)
  ELSE IF operator \in {"set!", "is?", "is-not?"} THEN CheckProperty(operator, steps)
  ELSE NoError

\* the body of the loop over the predicates of a pattern
CheckPredicate(steps) ==
  IF Len(steps) = 0 THEN NoError
  ELSE IF steps[1].Type # QueryPredicateStepTypeString
  THEN [type |-> "errorString", kind |-> "predicate must begin with a literal value",
        operator |-> "", expected |-> "", got |-> ""]
  ELSE CheckOperator(StringValueForId(steps[1].ValueId), steps)

RECURSIVE FirstError(_)
\* the first error among the predicates, in order
FirstError(predicates) ==
  IF predicates = <<>> THEN NoError
  ELSE IF CheckPredicate(Head(predicates)) # NoError THEN CheckPredicate(Head(predicates))
  ELSE FirstError(Tail(predicates))

RECURSIVE ValidateLoop(_, _)
\* the loop over the patterns i, i + 1, ... of the compiled query
ValidateLoop(q, i) ==
  IF i >= PatternCount(q) THEN NoError
  ELSE IF FirstError(PredicatesForPattern(q, i)) # NoError
  THEN FirstError(PredicatesForPattern(q, i))
  ELSE ValidateLoop(q, i + 1)

NilQuery == [ok |-> FALSE, patterns |-> <<>>]
NilMatch == [ID |-> 0, PatternIndex |-> 0, Captures |-> <<>>]

\* QueryErrorType
QueryErrorNone == 0
QueryErrorSyntax == 1
QueryErrorNodeType == 2
QueryErrorField == 3
QueryErrorCapture == 4
QueryErrorStructure == 5
QueryErrorLanguage == 6

QueryErrorTypeToString(errorType) ==
  IF errorType = QueryErrorNone THEN "none"
  ELSE IF errorType = QueryErrorNodeType THEN "node type"
  ELSE IF errorType = QueryErrorField THEN "field"
  ELSE IF errorType = QueryErrorCapture THEN "capture"
  ELSE IF errorType = QueryErrorSyntax THEN "syntax"
  ELSE "unknown"

\* what ts_query_new reports: the error type and offset, for the bytes `pattern`
TSQueryOk == [errtype |-> QueryErrorNone, erroff |-> 0, pattern |-> <<>>]

\* the bytes of the query texts the engine rejects: letters and newlines
PatternBytes == {"a", "\n"}

\* a rejection by the engine, at any offset of the text
TSQueryErrors ==
  UNION {{[errtype |-> t, erroff |-> o, pattern |-> pat] :
            t \in QueryErrorSyntax..QueryErrorLanguage, o \in 0..Len(pat)} :
          pat \in SeqsUpTo(PatternBytes, MaxPattern)}

RECURSIVE LineLoop(_, _, _, _, _)
\* the search for the line of the offset: `for i, c := range pattern`, from
\* index i on; line_start is assigned in every iteration
LineLoop(pattern, i, errorOffset, line, line_start) ==
  IF i >= Len(pattern) THEN [line |-> line, line_start |-> line_start]
  ELSE IF i >= errorOffset THEN [line |-> line, line_start |-> i]
  ELSE LineLoop(pattern, i + 1, errorOffset,
                IF pattern[i + 1] = "\n" THEN line + 1 ELSE line, i)

RECURSIVE IdentifierLoop(_, _)
\* the match of ^[a-zA-Z_][a-zA-Z0-9_-]* at the start of s: its length
IdentifierLoop(s, n) ==
  IF n < Len(s) /\ s[n + 1] = "a" THEN IdentifierLoop(s, n + 1) ELSE n

\* strings.Split(s, "\n")[0]
FirstLine(s) ==
  IF \E i \in DOMAIN s : s[i] = "\n"
  THEN SubSeq(s, 1, (CHOOSE i \in DOMAIN s : s[i] = "\n" /\ \A j \in 1..(i - 1) : s[j] # "\n") - 1)
  ELSE s

\* the *QueryError NewQuery builds from the engine's error; Message holds the
\* values formatted into the message text
QueryError(pattern, errorOffset, errorType) ==
  LET l == LineLoop(pattern, 0, errorOffset, 1, 0)
      column == errorOffset - l.line_start
      s == SubSeq(pattern, errorOffset + 1, Len(pattern))
      what == QueryErrorTypeToString(errorType)
  IN [type |-> "QueryError",
      Offset |-> errorOffset,
      Type |-> errorType,
      Message |->
        IF errorType \in {QueryErrorNodeType, QueryErrorField, QueryErrorCapture}
        THEN [invalid |-> what, identifier |-> SubSeq(s, 1, IdentifierLoop(s, 0)),
              line |-> l.line, column |-> column, echo |-> <<>>, caret |-> 0]
        ELSE [invalid |-> what, identifier |-> <<>>,
              line |-> l.line, column |-> column, echo |-> FirstLine(s), caret |-> column]]

\* NewQuery on a text the engine compiles to the patterns `text`, or rejects
\* with the error ts
NewQuery(text, ts) ==
  /\ qpc = "start"
  /\ qsrc' = text
  /\ qpattern' = IF ts.errtype # QueryErrorNone THEN ts.pattern ELSE <<>>
  /\ IF ts.errtype # QueryErrorNone
     THEN /\ query' = NilQuery
          /\ qerr' = QueryError(ts.pattern, ts.erroff, ts.errtype)
          /\ qpc' = "failed"
     ELSE LET q == [ok |-> TRUE, patterns |-> text]
              e == ValidateLoop(q, 0)
          IN IF e # NoError
             THEN /\ query' = NilQuery
                  /\ qerr' = e
                  /\ qpc' = "failed"
             ELSE /\ query' = q
                  /\ qerr' = NoError
                  /\ qpc' = "compiled"
  /\ UNCHANGED <<fmatch, finput, fres, fevals>>
  /\ UNCHANGED <<cvars, pvars, evars, mvars, rvars>>

QueryIdle ==
  /\ qpc = "start"
  /\ qsrc = <<>>
  /\ query = NilQuery
  /\ qerr = NoError
  /\ qpattern = <<>>
  /\ fmatch = NilMatch
  /\ finput = <<>>
  /\ fres = NilMatch
  /\ fevals = <<>>

(***************************************************************************)
(* FilterPredicates                                                        *)
(***************************************************************************)
\* the words of the source texts
Words == {<<"r", "e", "d">>, <<"b", "l", "u", "e">>, <<"R", "e", "d">>}

\* the source texts: "red" and a second word, separated by a space
Sources == {<<"r", "e", "d", " ">> \o w : w \in Words}

\* the nodes of the two words of a source text
WordNodes(input) ==
  LET sp == CHOOSE i \in 1..Len(input) : input[i] = " "
  IN {[StartByte |-> 0, EndByte |-> sp - 1, children |-> <<>>],
      [StartByte |-> sp, EndByte |-> Len(input), children |-> <<>>]}

\* QueryCapture values over the nodes of a source text
Captures(input) == {[Index |-> i, Node |-> n] : i \in 0..(Len(CaptureNames) - 1), n \in WordNodes(input)}

\* ids the engine gives to matches
MatchIDs == {7}

\* nodeContent
nodeContent(n, b) == SubSeq(b, n.StartByte + 1, n.EndByte)

\* regexp.Compile on the bytes of the source: an optional ^ followed by literal
\* characters; an unclosed [ is a syntax error
RegexCompile(src) ==
  IF \E i \in DOMAIN src : src[i] = "["
  THEN [valid |-> FALSE, anchored |-> FALSE, lit |-> <<>>]
  ELSE IF src # <<>> /\ src[1] = "^"
  THEN [valid |-> TRUE, anchored |-> TRUE, lit |-> Tail(src)]
  ELSE [valid |-> TRUE, anchored |-> FALSE, lit |-> src]

\* Regexp.Match: the literal occurs in the text, at its start when anchored
RegexMatch(re, text) ==
  \E i \in 1..(Len(text) + 1) :
    /\ re.anchored => i = 1
    /\ i + Len(re.lit) - 1 <= Len(text)
    /\ SubSeq(text, i, i + Len(re.lit) - 1) = re.lit

RECURSIVE EqCaptureLoop(_, _, _, _, _, _, _, _)
\* the right capture is only taken once the left one was seen
EqCaptureLoopOrdered(caps, i, left, right, nodeLeft, nodeRight, input, isPositive) ==
  IF i > Len(caps) THEN TRUE
  ELSE LET captureName == CaptureNameForId(caps[i].Index)
           nl == IF captureName = left THEN caps[i].Node ELSE nodeLeft
           nr == IF captureName = right /\ nl # NoNode THEN caps[i].Node ELSE nodeRight
       IN IF nl # NoNode /\ nr # NoNode
          THEN (nodeContent(nl, input) = nodeContent(nr, input)) = isPositive
          ELSE EqCaptureLoop(caps, i + 1, left, right, nl, nr, input, isPositive)

\* eq?/not-eq? with two captures: the loop over m.Captures from position i on,
\* with the nodes found so far; the comparison is made once both are set
EqCaptureLoop(caps, i, left, right, nodeLeft, nodeRight, input, isPositive) ==
  IF i > Len(caps) THEN TRUE
  ELSE LET captureName == CaptureNameForId(caps[i].Index)
           nl == IF captureName = left THEN caps[i].Node ELSE nodeLeft
           nr == IF captureName = right THEN caps[i].Node ELSE nodeRight
       IN IF nl # NoNode /\ nr # NoNode
          THEN (nodeContent(nl, input) = nodeContent(nr, input)) = isPositive
          ELSE EqCaptureLoop(caps, i + 1, left, right, nl, nr, input, isPositive)

\* strings.ToLower on the bytes of the source texts
ToLower(bs) == [i \in DOMAIN bs |-> IF bs[i] = "R" THEN "r" ELSE bs[i]]

\* eq?/not-eq? with a literal, compared without regard to case
EqLiteralPassFold(caps, left, expectedValueRight, input, isPositive) ==
  \A i \in DOMAIN caps :
    CaptureNameForId(caps[i].Index) = left =>
      (GoString(ToLower(nodeContent(caps[i].Node, input))) = expectedValueRight) = isPositive

\* eq?/not-eq? with a literal: no capture of that name has a text that disagrees
EqLiteralPass(caps, left, expectedValueRight, input, isPositive) ==
  \A i \in DOMAIN caps :
    CaptureNameForId(caps[i].Index) = left =>
      (GoString(nodeContent(caps[i].Node, input)) = expectedValueRight) = isPositive

\* match?/not-match? satisfied by one agreeing capture of that name
MatchPassAny(caps, expectedCaptureName, regex, input, isPositive) ==
  \E i \in DOMAIN caps :
    /\ CaptureNameForId(caps[i].Index) = expectedCaptureName
    /\ RegexMatch(regex, nodeContent(caps[i].Node, input)) = isPositive

\* match?/not-match?: no capture of that name has a text that disagrees
MatchPass(caps, expectedCaptureName, regex, input, isPositive) ==
  \A i \in DOMAIN caps :
    CaptureNameForId(caps[i].Index) = expectedCaptureName =>
      RegexMatch(regex, nodeContent(caps[i].Node, input)) = isPositive

\* a default case that fails the match on an operator it does not know
EvalPredicateStrict(steps, caps, input) ==
  LET operator == StringValueForId(steps[1].ValueId)
  IN IF operator \in {"eq?", "not-eq?"}
     THEN IF steps[3].Type = QueryPredicateStepTypeCapture
          THEN [pass |-> EqCaptureLoop(caps, 1, CaptureNameForId(steps[2].ValueId),
                                       CaptureNameForId(steps[3].ValueId), NoNode, NoNode,
                                       input, operator = "eq?"),
                panic |-> FALSE]
          ELSE [pass |-> EqLiteralPass(caps, CaptureNameForId(steps[2].ValueId),
                                       StringValueForId(steps[3].ValueId), input, operator = "eq?"),
                panic |-> FALSE]
     ELSE IF operator \in {"match?", "not-match?"}
     THEN LET regex == RegexCompile(StringBytes[steps[3].ValueId + 1])
          IN IF ~regex.valid THEN [pass |-> FALSE, panic |-> TRUE]
             ELSE [pass |-> MatchPass(caps, CaptureNameForId(steps[2].ValueId), regex, input,
                                      operator = "match?"),
                   panic |-> FALSE]
     ELSE [pass |-> operator \in {"set!", "is?", "is-not?"}, panic |-> FALSE]

\* one iteration of the loop over the predicates: whether this invocation leaves
\* matchedAll alone (pass) or sets it to false; regexp.MustCompile panics on a
\* source that does not compile
EvalPredicate(steps, caps, input) ==
  LET operator == StringValueForId(steps[1].ValueId)
  IN IF operator \in {"eq?", "not-eq?"}
     THEN IF steps[3].Type = QueryPredicateStepTypeCapture
          THEN [pass |-> EqCaptureLoop(caps, 1, CaptureNameForId(steps[2].ValueId),
                                       CaptureNameForId(steps[3].ValueId), NoNode, NoNode,
                                       input, operator = "eq?"),
                panic |-> FALSE]
          ELSE [pass |-> EqLiteralPass(caps, CaptureNameForId(steps[2].ValueId),
                                       StringValueForId(steps[3].ValueId), input, operator = "eq?"),
                panic |-> FALSE]
     ELSE IF operator \in {"match?", "not-match?"}
     THEN LET regex == RegexCompile(StringBytes[steps[3].ValueId + 1])
          IN IF ~regex.valid THEN [pass |-> FALSE, panic |-> TRUE]
             ELSE [pass |-> MatchPass(caps, CaptureNameForId(steps[2].ValueId), regex, input,
                                      operator = "match?"),
                   panic |-> FALSE]
     ELSE [pass |-> TRUE, panic |-> FALSE]

RECURSIVE PredicateLoop(_, _, _, _, _, _)
\* the loop over the predicates from number i on: matchedAll never goes back to
\* true, and the break after a failed eq? leaves the switch, not the loop
PredicateLoop(predicates, i, caps, input, matchedAll, evals) ==
  IF i > Len(predicates) THEN [matchedAll |-> matchedAll, panic |-> FALSE, evals |-> evals]
  ELSE LET r == EvalPredicate(predicates[i], caps, input)
       IN IF r.panic THEN [matchedAll |-> matchedAll, panic |-> TRUE, evals |-> Append(evals, i)]
          ELSE PredicateLoop(predicates, i + 1, caps, input, matchedAll /\ r.pass,
                             Append(evals, i))

\* the captures of the result when only the captures a predicate names are kept
KeptCapturesFirstOnly(m, matchedAll) ==
  IF matchedAll THEN SubSeq(m.Captures, 1, IF Len(m.Captures) > 0 THEN 1 ELSE 0) ELSE <<>>

\* the captures of the result: append(qm.Captures, m.Captures...) if matchedAll
KeptCaptures(m, matchedAll) == IF matchedAll THEN m.Captures ELSE <<>>

\* QueryCursor.FilterPredicates(m, input) on the cursor's query
FilterPredicates(m, input) ==
  /\ qpc = "compiled"
  /\ fmatch' = m
  /\ finput' = input
  /\ LET qm == [ID |-> m.ID, PatternIndex |-> m.PatternIndex, Captures |-> <<>>]
         predicates == PredicatesForPattern(query, qm.PatternIndex)
     IN IF Len(predicates) = 0
        THEN /\ fres' = [qm EXCEPT !.Captures = m.Captures]
             /\ fevals' = <<>>
             /\ qpc' = "filtered"
        ELSE LET r == PredicateLoop(predicates, 1, m.Captures, input, TRUE, <<>>)
             IN /\ fevals' = r.evals
                /\ IF r.panic
                   THEN /\ qpc' = "panicked"
                        /\ fres' = NilMatch
                   ELSE /\ qpc' = "filtered"
                        /\ fres' = [qm EXCEPT !.Captures = KeptCaptures(m, r.matchedAll)]
  /\ UNCHANGED <<qsrc, query, qerr, qpattern>>
  /\ UNCHANGED <<cvars, pvars, evars, mvars, rvars>>

(***************************************************************************)
(* Parser.Parse, convertTSTree and the context watcher                     *)
(***************************************************************************)
Calls == 1..MaxParses

NoTSTree == [tree |-> FALSE, cause |-> "none", by |-> 0]
NoResult == [tree |-> FALSE, err |-> "none"]

\* NewParser: flag 0, no call made; the language may have been refused by the
\* engine, and an operation limit may have been set
ParserNew ==
  /\ ppc = "idle"
  /\ pcall = 0
  /\ cancel = 0
  /\ cancelBy = 0
  /\ ctx = [k \in Calls |-> [cancellable |-> FALSE, cancelled |-> FALSE, late |-> FALSE]]
  /\ watcher = [k \in Calls |-> "none"]
  /\ complete = [k \in Calls |-> FALSE]
  /\ tsTree = NoTSTree
  /\ presult = [k \in Calls |-> NoResult]
  /\ resumable = FALSE
  /\ resumed = [k \in Calls |-> FALSE]

\* the parser while the other components run
ParserIdle == ParserNew /\ hasLang = TRUE /\ opLimit = FALSE

\* Parse up to the engine call: make(chan), and the watcher goroutine only if
\* ctx.Done() != nil; the context may already be cancelled
ParseBegin(cancellable, cancelled) ==
  /\ ppc = "idle"
  /\ pcall < MaxParses
  /\ pcall' = pcall + 1
  /\ ctx' = [ctx EXCEPT ![pcall + 1] = [cancellable |-> cancellable, cancelled |-> cancelled,
                                        late |-> FALSE]]
  /\ watcher' = [watcher EXCEPT ![pcall + 1] = IF cancellable THEN "select" ELSE "none"]
  /\ resumed' = [resumed EXCEPT ![pcall + 1] = resumable]
  /\ tsTree' = NoTSTree
  /\ ppc' = "engine"
  /\ UNCHANGED <<hasLang, opLimit, cancel, cancelBy, complete, presult, resumable>>
  /\ UNCHANGED <<cvars, qvars, evars, mvars, rvars>>

\* the context of call k is cancelled (by its owner, or by a deadline); late
\* records that the engine call of that Parse had returned by then
CancelCtx(k) ==
  /\ k <= pcall
  /\ ctx[k].cancellable
  /\ ~ctx[k].cancelled
  /\ ctx' = [ctx EXCEPT ![k].cancelled = TRUE,
                        ![k].late = (k < pcall \/ ppc # "engine")]
  /\ UNCHANGED <<ppc, pcall, hasLang, opLimit, cancel, cancelBy, watcher, complete, tsTree,
                 presult, resumable, resumed>>
  /\ UNCHANGED <<cvars, qvars, evars, mvars, rvars>>

\* the select of the watcher of call k: a case that is ready is taken, either
\* one when both are
WatcherSelect(k) ==
  /\ watcher[k] = "select"
  /\ \/ /\ ctx[k].cancelled
        /\ watcher' = [watcher EXCEPT ![k] = "store"]
     \/ /\ complete[k]
        /\ watcher' = [watcher EXCEPT ![k] = "exit"]
  /\ UNCHANGED <<ppc, pcall, hasLang, opLimit, cancel, cancelBy, ctx, complete, tsTree,
                 presult, resumable, resumed>>
  /\ UNCHANGED <<cvars, qvars, evars, mvars, rvars>>

\* case <-ctx.Done(): atomic.StoreUintptr(p.cancel, 1)
WatcherStore(k) ==
  /\ watcher[k] = "store"
  /\ cancel' = 1
  /\ cancelBy' = k
  /\ watcher' = [watcher EXCEPT ![k] = "exit"]
  /\ UNCHANGED <<ppc, pcall, hasLang, opLimit, ctx, complete, tsTree, presult, resumable,
                 resumed>>
  /\ UNCHANGED <<cvars, qvars, evars, mvars, rvars>>

\* ts_parser_parse_string returns: NULL at once without a language; otherwise a
\* tree, or NULL when it polled the flag and found it set, or NULL when the
\* operation limit ran out
EngineReturn(outcome) ==
  /\ ppc = "engine"
  /\ IF ~hasLang
     THEN outcome = "nolang"
     ELSE \/ outcome = "tree"
          \/ outcome = "cancel" /\ cancel # 0
          \/ outcome = "limit" /\ opLimit
  /\ tsTree' = [tree |-> outcome = "tree",
                cause |-> IF outcome = "tree" THEN "none" ELSE outcome,
                by |-> IF outcome = "cancel" THEN cancelBy ELSE 0]
  /\ resumable' = (outcome \in {"cancel", "limit"})
  /\ ppc' = "close"
  /\ UNCHANGED <<pcall, hasLang, opLimit, cancel, cancelBy, ctx, watcher, complete, presult,
                 resumed>>
  /\ UNCHANGED <<cvars, qvars, evars, mvars, rvars>>

\* the channel is left open
ParseCloseNever ==
  /\ ppc = "close"
  /\ ppc' = "convert"
  /\ UNCHANGED <<pcall, hasLang, opLimit, cancel, cancelBy, ctx, watcher, complete, tsTree,
                 presult, resumable, resumed>>
  /\ UNCHANGED <<cvars, qvars, evars, mvars, rvars>>

\* close(parseComplete)
ParseClose ==
  /\ ppc = "close"
  /\ complete' = [complete EXCEPT ![pcall] = TRUE]
  /\ ppc' = "convert"
  /\ UNCHANGED <<pcall, hasLang, opLimit, cancel, cancelBy, ctx, watcher, tsTree, presult,
                 resumable, resumed>>
  /\ UNCHANGED <<cvars, qvars, evars, mvars, rvars>>

\* the error convertTSTree returns for a nil tree: ctx.Err() when it is not nil,
\* then ErrNoLanguage without a language, else ErrOperationLimit
ErrorOfNil(cancelled, lang) ==
  IF cancelled THEN "ctxErr"
  ELSE IF ~lang THEN "ErrNoLanguage"
  ELSE "ErrOperationLimit"

\* convertTSTree up to its first effect: a tree is returned; for a nil tree
\* ctx.Err() is read, then the language
ParseConvert ==
  /\ ppc = "convert"
  /\ IF tsTree.tree
     THEN /\ presult' = [presult EXCEPT ![pcall] = [tree |-> TRUE, err |-> "none"]]
          /\ ppc' = "idle"
     ELSE IF ErrorOfNil(ctx[pcall].cancelled, hasLang) = "ctxErr"
     THEN /\ ppc' = "reset"
          /\ UNCHANGED presult
     ELSE /\ presult' = [presult EXCEPT ![pcall] =
                           [tree |-> FALSE, err |-> ErrorOfNil(ctx[pcall].cancelled, hasLang)]]
          /\ ppc' = "idle"
  /\ UNCHANGED <<pcall, hasLang, opLimit, cancel, cancelBy, ctx, watcher, complete, tsTree,
                 resumable, resumed>>
  /\ UNCHANGED <<cvars, qvars, evars, mvars, rvars>>

\* atomic.StoreUintptr(p.cancel, 0); return nil, ctx.Err()
ParseReset ==
  /\ ppc = "reset"
  /\ cancel' = 0
  /\ cancelBy' = 0
  /\ presult' = [presult EXCEPT ![pcall] = [tree |-> FALSE, err |-> "ctxErr"]]
  /\ ppc' = "idle"
  /\ UNCHANGED <<pcall, hasLang, opLimit, ctx, watcher, complete, tsTree, resumable, resumed>>
  /\ UNCHANGED <<cvars, qvars, evars, mvars, rvars>>

\* Parser.Reset, between two calls
Reset ==
  /\ ppc = "idle"
  /\ resumable
  /\ resumable' = FALSE
  /\ UNCHANGED <<ppc, pcall, hasLang, opLimit, cancel, cancelBy, ctx, watcher, complete, tsTree,
                 presult, resumed>>
  /\ UNCHANGED <<cvars, qvars, evars, mvars, rvars>>

(***************************************************************************)
(* Tree.Edit and Node.Edit                                                 *)
(***************************************************************************)
\* C.uint32_t(x) of a Go int: the low 32 bits, which for the offsets, rows and
\* columns of a text (0 <= x < 2^31) is x itself
Uint32(x) == x

\* the edits of a text: bytes [StartIndex, OldEndIndex) are replaced by the
\* bytes [StartIndex, NewEndIndex), each offset with its row/column
EditInputs ==
  UNION {{[StartIndex |-> s, OldEndIndex |-> oe, NewEndIndex |-> ne,
           StartPoint |-> PointOf(s), OldEndPoint |-> PointOf(oe), NewEndPoint |-> PointOf(ne)] :
            oe \in s..MaxEditByte, ne \in s..MaxEditByte} :
          s \in 0..MaxEditByte}

NoEditInput ==
  [StartIndex |-> 0, OldEndIndex |-> 0, NewEndIndex |-> 0,
   StartPoint |-> PointOf(0), OldEndPoint |-> PointOf(0), NewEndPoint |-> PointOf(0)]

\* C.TSPoint
TSPoint(row, column) == [row |-> Uint32(row), column |-> Uint32(column)]

NoTSInputEdit ==
  [start_byte |-> 0, old_end_byte |-> 0, new_end_byte |-> 0,
   start_point |-> TSPoint(0, 0), old_end_point |-> TSPoint(0, 0),
   new_end_point |-> TSPoint(0, 0)]

\* EditInput.c
EditInputC(i) ==
  [start_byte |-> Uint32(i.StartIndex),
   old_end_byte |-> Uint32(i.OldEndIndex),
   new_end_byte |-> Uint32(i.NewEndIndex),
   start_point |-> TSPoint(i.StartPoint.Row, i.StartPoint.Column),
   old_end_point |-> TSPoint(i.OldEndPoint.Row, i.OldEndPoint.Column),
   new_end_point |-> TSPoint(i.OldEndPoint.Row, i.OldEndPoint.Column)]

\* Tree.Edit: panics on a closed tree, otherwise ts_tree_edit(t.c, i.c())
TreeEdit(i) ==
  /\ epc # "panicked"
  /\ einput' = i
  /\ etarget' = "tree"
  /\ IF tclosed
     THEN /\ epc' = "panicked"
          /\ UNCHANGED tsEdit
     ELSE /\ epc' = "edited"
          /\ tsEdit' = EditInputC(i)
  /\ UNCHANGED tclosed
  /\ UNCHANGED <<cvars, qvars, pvars, mvars, rvars>>

\* Node.Edit: ts_node_edit(&n.c, i.c())
NodeEdit(i) ==
  /\ epc # "panicked"
  /\ einput' = i
  /\ etarget' = "node"
  /\ epc' = "edited"
  /\ tsEdit' = EditInputC(i)
  /\ UNCHANGED tclosed
  /\ UNCHANGED <<cvars, qvars, pvars, mvars, rvars>>

\* baseTree.Close
TreeClose ==
  /\ epc # "panicked"
  /\ ~tclosed
  /\ tclosed' = TRUE
  /\ UNCHANGED <<epc, einput, etarget, tsEdit>>
  /\ UNCHANGED <<cvars, qvars, pvars, mvars, rvars>>

EditIdle ==
  /\ epc = "idle"
  /\ tclosed = FALSE
  /\ einput = NoEditInput
  /\ etarget = "tree"
  /\ tsEdit = NoTSInputEdit

\* no MarkdownTree.Edit made, no tree closed
MdEditIdle ==
  /\ mpc = "idle"
  /\ mclosed = {}
  /\ minput = NoEditInput
  /\ mlog = <<>>
  /\ mbefore = [blockTree |-> 0, inlineTrees |-> <<>>, inlineIndices |-> <<>>]
  /\ mafter = [blockTree |-> 0, inlineTrees |-> <<>>, inlineIndices |-> <<>>]

(***************************************************************************)
(* Parser.ParseInput and the registry of read callbacks                    *)
(***************************************************************************)
\* the concurrent ParseInput calls, each on a parser of its own; the read
\* function of call c (input.Read) is written c
Inputs == 1..MaxInputs

\* the nil ReadFunc, which a lookup of an absent key of the map returns
NilFunc == 0
\* no lookup made yet
NoLookup == -1

\* the largest 32-bit signed value; a Go int is held in two limbs, as
\* hi * 2^31 + lo with lo in 0..MaxInt32
MaxInt32 == 2147483647
GoZero == [hi |-> 0, lo |-> 0]

\* x + 1
Incr(x) ==
  IF x.lo = MaxInt32 THEN [hi |-> x.hi + 1, lo |-> 0] ELSE [hi |-> x.hi, lo |-> x.lo + 1]

\* the low 32 bits of x, sign-extended: C.int(x) read back as a Go int
CInt(x) == [hi |-> IF x.hi % 2 = 1 THEN -1 ELSE 0, lo |-> x.lo]

\* a value of Go's int in a build with a 32-bit or a 64-bit int
GoInt(x, size) == IF size = 32 THEN CInt(x) ELSE x

\* the values of readFuncs.count at which the calls start: the first calls of
\* the process, and the calls made after MaxInt32 - 1 earlier ones returned
StartCounts == {GoZero, [hi |-> 0, lo |-> MaxInt32 - 1]}

\* the empty map
NoFuncs == [id \in {} |-> NilFunc]

\* readFuncsMap.register, under the mutex
register(m, f, size) ==
  LET count == GoInt(Incr(m.count), size)
  IN [funcs |-> [id \in DOMAIN m.funcs \cup {count} |-> IF id = count THEN f ELSE m.funcs[id]],
      count |-> count]

\* readFuncsMap.unregister, under the mutex
unregister(m, id) ==
  [funcs |-> [k \in DOMAIN m.funcs \ {id} |-> m.funcs[k]], count |-> m.count]

\* readFuncsMap.get, under the mutex
get(m, id) == IF id \in DOMAIN m.funcs THEN m.funcs[id] ELSE NilFunc

InputIdle ==
  /\ readFuncs = [funcs |-> NoFuncs, count |-> GoZero]
  /\ intSize = 64
  /\ ipc = [c \in Inputs |-> "start"]
  /\ funcID = [c \in Inputs |-> GoZero]
  /\ lookup = [c \in Inputs |-> NoLookup]
  /\ nreads = [c \in Inputs |-> 0]
  /\ itree = [c \in Inputs |-> FALSE]
  /\ iresult = [c \in Inputs |-> [tree |-> FALSE, err |-> "none"]]

\* a panic of one goroutine ends the process
InputsRunning == \A c \in Inputs : ipc[c] # "panicked"

\* funcID := readFuncs.register(input.Read)
InputRegister(c) ==
  /\ InputsRunning
  /\ ipc[c] = "start"
  /\ readFuncs' = register(readFuncs, c, intSize)
  /\ funcID' = [funcID EXCEPT ![c] = readFuncs'.count]
  /\ ipc' = [ipc EXCEPT ![c] = "engine"]
  /\ UNCHANGED <<intSize, lookup, nreads, itree, iresult>>
  /\ UNCHANGED <<cvars, qvars, pvars, evars, mvars>>

\* callReadFunc, called by the engine of call c with the id that ParseInput
\* handed to it as C.int(funcID): readFuncs.get(int(id)), then the call of the
\* function it got, which panics for nil
callReadFunc(c) ==
  /\ InputsRunning
  /\ ipc[c] = "engine"
  /\ nreads[c] < MaxReads
  /\ LET readFunc == get(readFuncs, CInt(funcID[c]))
     IN /\ lookup' = [lookup EXCEPT ![c] = readFunc]
        /\ IF readFunc = NilFunc
           THEN ipc' = [ipc EXCEPT ![c] = "panicked"] /\ UNCHANGED nreads
           ELSE nreads' = [nreads EXCEPT ![c] = nreads[c] + 1] /\ UNCHANGED ipc
  /\ UNCHANGED <<readFuncs, intSize, funcID, itree, iresult>>
  /\ UNCHANGED <<cvars, qvars, pvars, evars, mvars>>

\* C.call_ts_parser_parse returns, with a tree or with NULL
InputEngineReturn(c, tree) ==
  /\ InputsRunning
  /\ ipc[c] = "engine"
  /\ itree' = [itree EXCEPT ![c] = tree]
  /\ ipc' = [ipc EXCEPT ![c] = "unregister"]
  /\ UNCHANGED <<readFuncs, intSize, funcID, lookup, nreads, iresult>>
  /\ UNCHANGED <<cvars, qvars, pvars, evars, mvars>>

\* readFuncs.unregister(funcID)
InputUnregister(c) ==
  /\ InputsRunning
  /\ ipc[c] = "unregister"
  /\ readFuncs' = unregister(readFuncs, funcID[c])
  /\ ipc' = [ipc EXCEPT ![c] = "convert"]
  /\ UNCHANGED <<intSize, funcID, lookup, nreads, itree, iresult>>
  /\ UNCHANGED <<cvars, qvars, pvars, evars, mvars>>

\* return p.convertTSTree(ctx, cTree), on the parser of call c, whose context
\* is cancelled or not and which has a language or not
InputConvert(c, cancelled, lang) ==
  /\ InputsRunning
  /\ ipc[c] = "convert"
  /\ iresult' = [iresult EXCEPT ![c] =
                   IF itree[c] THEN [tree |-> TRUE, err |-> "none"]
                   ELSE [tree |-> FALSE, err |-> ErrorOfNil(cancelled, lang)]]
  /\ ipc' = [ipc EXCEPT ![c] = "returned"]
  /\ UNCHANGED <<readFuncs, intSize, funcID, lookup, nreads, itree>>
  /\ UNCHANGED <<cvars, qvars, pvars, evars, mvars>>

(***************************************************************************)
(* ParseCtx (src/unnamed/part_008)                                         *)
(***************************************************************************)
\* outcomes of Parser.Parse other than a tree
ParseErrors == {"ctxErr", "ErrOperationLimit"}

\* a nil *MarkdownTree; tree identity 0 is the nil *Tree
NilMd == [blockTree |-> 0, inlineTrees |-> <<>>, inlineIndices |-> <<>>]

\* the inline parser before its first Parse, and after Close
NoCall == [anchor |-> NoNode, id |-> 0, ranges |-> <<>>, old |-> 0]

RECURSIVE CoverLoop(_, _, _, _)
\* the running range is never moved past a child
CoverLoopNoAdvance(node, i, r, ranges) ==
  IF i < NamedChildCount(node)
  THEN LET childRange == Range(NamedChild(node, i))
       IN CoverLoop(node, i + 1, r,
                    Append(ranges, [StartPoint |-> r.StartPoint,
                                    StartByte  |-> r.StartByte,
                                    EndPoint   |-> childRange.EndPoint,
                                    EndByte    |-> childRange.EndByte]))
  ELSE Append(ranges, r)

\* the loop over the named children of a capture: i is the child index, r the
\* running range, ranges the slice built so far; ends with append(ranges, r)
CoverLoop(node, i, r, ranges) ==
  IF i < NamedChildCount(node)
  THEN LET childRange == Range(NamedChild(node, i))
       IN CoverLoop(node, i + 1,
                    [r EXCEPT !.StartPoint = childRange.EndPoint,
                              !.StartByte = childRange.EndByte],
                    Append(ranges, [StartPoint |-> r.StartPoint,
                                    StartByte  |-> r.StartByte,
                                    EndPoint   |-> childRange.EndPoint,
                                    EndByte    |-> childRange.EndByte]))
  ELSE Append(ranges, r)

\* the ranges passed to SetIncludedRanges for one capture
IncludedRanges(node) == CoverLoop(node, 0, Range(node), <<>>)

\* `return nil, err` after the primary parse failed
PrimaryError(err) == [tree |-> NilMd, err |-> err]

\* the composite built so far is handed out with the error
InlineErrorPartial(built, err) == [tree |-> built, err |-> err]

\* `return nil, err` after a secondary parse failed; built is res at that point
InlineError(built, err) == [tree |-> NilMd, err |-> err]

\* off by one in the ordinal
OldForShifted(old, i) ==
  IF old # NilMd /\ i + 1 < Len(old.inlineTrees) THEN old.inlineTrees[i + 2] ELSE 0

\* the old tree of the secondary parse number i (0-based)
OldFor(old, i) ==
  IF old # NilMd /\ i < Len(old.inlineTrees) THEN old.inlineTrees[i + 1] ELSE 0

\* the null Node of a tree walk: identity only (a zero treesitter.Node)
NullNode == [id |-> 0, children |-> <<>>]

\* Tree.RootNode of a secondary tree: its root has the identity after the tree's
RootNode(tree) == [id |-> tree + 1, children |-> <<>>]

\* identities a primary tree needs for one anchor region: the block node that
\* holds the anchor, the anchor, and the anchor's named children
IdStride == MaxChildren + 2

\* Node.ID of the named nodes of the primary tree b: the root, the block node of
\* region k, the anchor (inline) node of region k and its named child j (0-based)
RootID(b) == b + 1
BlockID(b, k) == b + 2 + k * IdStride
AnchorID(b, k) == BlockID(b, k) + 1
ChildID(b, k, j) == AnchorID(b, k) + 1 + j

\* the primary tree the block grammar gives for doc: document root, one block
\* node per anchor region, the anchor below it, the anchor's named children
\* below the anchor; captures are the matches of `(inline) @inline` in order
PrimaryTree(b, doc) ==
  [tree |-> b,
   root |-> [id |-> RootID(b),
             children |-> [k \in 1..Len(doc) |->
               [id |-> BlockID(b, k - 1),
                children |-> << [id |-> AnchorID(b, k - 1),
                                 children |-> [j \in 1..Len(doc[k].children) |->
                                   [id |-> ChildID(b, k - 1, j - 1), children |-> <<>>]]] >>]]],
   captures |-> [k \in 1..Len(doc) |-> AnchorID(b, k - 1)]]

\* no primary tree yet
NoBlock == [tree |-> 0, root |-> NullNode, captures |-> <<>>]

\* the primary parse, with the caller's previous composite or nil; doc is the
\* list of nodes that the anchor query captures in the new primary tree
ParseCtxPrimary(old, doc, outcome) ==
  /\ cpc = "idle"
  /\ ncalls < MaxCalls
  /\ ncalls' = ncalls + 1
  /\ oldTree' = old
  /\ oldUsed' = <<>>
  /\ idx' = 0
  /\ perr' = IF outcome = "ok" THEN "none" ELSE outcome
  /\ anchored' = <<>>
  /\ visited' = <<>>
  /\ IF outcome = "ok"
     THEN /\ res' = [blockTree |-> nextId, inlineTrees |-> <<>>, inlineIndices |-> <<>>]
          /\ block' = PrimaryTree(nextId, doc)
          /\ nextId' = nextId + 2 + Len(doc) * IdStride
          /\ cpc' = "matching"
          /\ pending' = doc
          /\ UNCHANGED <<ret, prev>>
     ELSE /\ ret' = PrimaryError(outcome)
          /\ UNCHANGED <<res, nextId, cpc, prev, pending, block>>
  /\ UNCHANGED lastCall
  /\ UNCHANGED <<qvars, pvars, evars, mvars, rvars>>

\* NextMatch yields a match; its capture is parsed with the inline grammar
ParseCtxInline(outcome) ==
  /\ cpc = "matching"
  /\ pending # <<>>
  /\ LET anchor == Head(pending)
         old == OldFor(oldTree, idx)
         id  == block.captures[idx + 1]
         inlineTree == nextId
     IN /\ oldUsed' = Append(oldUsed, old)
        /\ perr' = IF outcome = "ok" THEN "none" ELSE outcome
        /\ IF outcome = "ok"
           THEN /\ lastCall' = [anchor |-> anchor, id |-> id,
                                ranges |-> IncludedRanges(anchor), old |-> old]
                /\ res' = [res EXCEPT !.inlineTrees = Append(@, inlineTree),
                                      !.inlineIndices = [k \in (DOMAIN @) \cup {id} |->
                                                           IF k = id THEN idx ELSE @[k]]]
                /\ idx' = idx + 1
                /\ anchored' = Append(anchored, [anchor |-> id, tree |-> inlineTree])
                /\ nextId' = nextId + 2
                /\ pending' = Tail(pending)
                /\ UNCHANGED <<cpc, ret, prev>>
           ELSE /\ ret' = InlineError(res, outcome)
                /\ cpc' = "idle"
                /\ lastCall' = NoCall
                /\ pending' = <<>>
                /\ nextId' = nextId + 1
                /\ UNCHANGED <<res, idx, prev, anchored>>
  /\ UNCHANGED <<oldTree, ncalls, block, visited>>
  /\ UNCHANGED <<qvars, pvars, evars, mvars, rvars>>

\* NextMatch reports no more matches: the composite is returned
ParseCtxReturn ==
  /\ cpc = "matching"
  /\ pending = <<>>
  /\ cpc' = "idle"
  /\ ret' = [tree |-> res, err |-> "none"]
  /\ prev' = res
  /\ lastCall' = NoCall
  /\ UNCHANGED <<oldTree, res, idx, pending, oldUsed, perr, nextId, ncalls, block, anchored, visited>>
  /\ UNCHANGED <<qvars, pvars, evars, mvars, rvars>>

ComposeIdle ==
  /\ cpc = "idle"
  /\ prev = NilMd
  /\ oldTree = NilMd
  /\ res = NilMd
  /\ idx = 0
  /\ pending = <<>>
  /\ lastCall = NoCall
  /\ oldUsed = <<>>
  /\ ret = [tree |-> NilMd, err |-> "none"]
  /\ perr = "none"
  /\ nextId = 1
  /\ ncalls = 0
  /\ block = NoBlock
  /\ anchored = <<>>
  /\ visited = <<>>

InitCompose == ComposeIdle /\ QueryIdle /\ ParserIdle /\ EditIdle /\ MdEditIdle /\ InputIdle

Outcomes == {"ok"} \cup ParseErrors

\* ParseCtx over documents with a single anchor region
NextCover ==
  \/ /\ cpc = "idle" /\ ncalls < MaxCalls
     /\ \E doc \in CoverDocs, old \in {NilMd, prev}, outcome \in Outcomes :
          ParseCtxPrimary(old, doc, outcome)
  \/ \E outcome \in Outcomes : ParseCtxInline(outcome)
  \/ ParseCtxReturn

SpecCover == InitCompose /\ [][NextCover]_vars

\* ParseCtx over documents with several anchor regions, rebuilt after edits
NextCompose ==
  \/ /\ cpc = "idle" /\ ncalls < MaxCalls
     /\ \E doc \in EditDocs, old \in {NilMd, prev}, outcome \in Outcomes :
          ParseCtxPrimary(old, doc, outcome)
  \/ \E outcome \in Outcomes : ParseCtxInline(outcome)
  \/ ParseCtxReturn

SpecCompose == InitCompose /\ [][NextCompose]_vars

(***************************************************************************)
(* MarkdownTree.InlineTree, InlineRootNode, Iter (src/unnamed/part_008)    *)
(***************************************************************************)
\* the run-time panic of an index expression out of range
IndexPanic == -1

\* the first secondary tree is returned for every anchor
InlineTreeFirst(t, parent) ==
  IF parent = NullNode THEN 0
  ELSE IF parent.id \in DOMAIN t.inlineIndices
       THEN IF 0 < Len(t.inlineTrees) THEN t.inlineTrees[1] ELSE IndexPanic
       ELSE 0

\* MarkdownTree.InlineTree: nil (0) for the null node and for an identity that
\* is not in the table, else the tree stored at the table's index
InlineTree(t, parent) ==
  IF parent = NullNode THEN 0
  ELSE IF parent.id \in DOMAIN t.inlineIndices
       THEN LET index == t.inlineIndices[parent.id]
            IN IF index < Len(t.inlineTrees) THEN t.inlineTrees[index + 1] ELSE IndexPanic
       ELSE 0

\* MarkdownTree.InlineRootNode
InlineRootNode(t, parent) ==
  LET tree == InlineTree(t, parent)
  IN IF tree = 0 THEN NullNode ELSE RootNode(tree)

\* the markdown Node handed to the visitor: a primary node and the root of its
\* secondary tree
MdNode(t, n) == [Node |-> n, Inline |-> InlineRootNode(t, n)]

RECURSIVE iter(_, _, _, _)
RECURSIVE IterLoop(_, _, _, _, _)

\* the walk goes on after a child's visit returned false
IterLoopKeepGoing(t, node, i, stopAt, seen) ==
  IF i < NamedChildCount(node.Node)
  THEN LET r == iter(t, MdNode(t, NamedChild(node.Node, i)), stopAt, seen)
       IN IterLoop(t, node, i + 1, stopAt, r.seen)
  ELSE [goNext |-> TRUE, seen |-> seen]

\* the loop of iter over the named children of node, from child i on
IterLoop(t, node, i, stopAt, seen) ==
  IF i < NamedChildCount(node.Node)
  THEN LET r == iter(t, MdNode(t, NamedChild(node.Node, i)), stopAt, seen)
       IN IF ~r.goNext THEN r
          ELSE IterLoop(t, node, i + 1, stopAt, r.seen)
  ELSE [goNext |-> TRUE, seen |-> seen]

\* MarkdownTree.iter; the visitor f answers false at its call number stopAt
\* (never when stopAt is 0); seen are the calls of f so far, with its answers
iter(t, node, stopAt, seen) ==
  LET goNext == (Len(seen) + 1 # stopAt)
      seen1 == Append(seen, [node |-> node, goNext |-> goNext])
  IN IF ~goNext THEN [goNext |-> FALSE, seen |-> seen1]
     ELSE IterLoop(t, node, 0, stopAt, seen1)

RECURSIVE TreeSize(_)
\* number of named nodes below and including n
TreeSize(n) ==
  LET Sum[i \in 0..Len(n.children)] == IF i = 0 THEN 0 ELSE Sum[i - 1] + TreeSize(n.children[i])
  IN 1 + Sum[Len(n.children)]

\* MarkdownTree.Iter on the composite the last ParseCtx returned
Iter(stopAt) ==
  /\ cpc = "idle"
  /\ ret.err = "none"
  /\ ret.tree # NilMd
  /\ visited = <<>>
  /\ LET t == ret.tree
         root == block.root
     IN visited' = iter(t, MdNode(t, root), stopAt, <<>>).seen
  /\ UNCHANGED <<cpc, prev, oldTree, res, idx, pending, lastCall, oldUsed, ret, perr, nextId,
                 ncalls, block, anchored>>
  /\ UNCHANGED <<qvars, pvars, evars, mvars, rvars>>

\* ParseCtx over documents with several anchor regions, then a walk
NextIter ==
  \/ /\ cpc = "idle" /\ ncalls < MaxCalls
     /\ \E doc \in EditDocs, old \in {NilMd, prev}, outcome \in Outcomes :
          ParseCtxPrimary(old, doc, outcome)
  \/ \E outcome \in Outcomes : ParseCtxInline(outcome)
  \/ ParseCtxReturn
  \/ /\ cpc = "idle" /\ ret.tree # NilMd
     /\ \E stopAt \in 0..TreeSize(block.root) : Iter(stopAt)

SpecIter == InitCompose /\ [][NextIter]_vars

(***************************************************************************)
(* MarkdownTree.Edit (src/unnamed/part_008)                                *)
(***************************************************************************)
\* the trees of a composite in the order MarkdownTree.Edit reaches them
TreesOf(t) == <<t.blockTree>> \o t.inlineTrees

\* edits at offset 1 that replace nothing or one byte by nothing or one byte
MdEditInputs == {i \in EditInputs : i.StartIndex = 1 /\ i.OldEndIndex <= 2 /\ i.NewEndIndex <= 2}

RECURSIVE MdEditLoop(_, _, _, _)
\* the secondary trees after a closed one are edited as well
MdEditLoopSkipClosed(trees, k, i, log) ==
  IF k > Len(trees) THEN [log |-> log, panic |-> FALSE]
  ELSE IF trees[k] \in mclosed THEN MdEditLoop(trees, k + 1, i, log)
  ELSE MdEditLoop(trees, k + 1, i, Append(log, [tree |-> trees[k], edit |-> EditInputC(i)]))

\* t.blockTree.Edit(edit), then tree.Edit(edit) for each secondary tree, from
\* tree number k on; Tree.Edit panics on a closed tree and calls
\* ts_tree_edit(t.c, i.c()) otherwise
MdEditLoop(trees, k, i, log) ==
  IF k > Len(trees) THEN [log |-> log, panic |-> FALSE]
  ELSE IF trees[k] \in mclosed THEN [log |-> log, panic |-> TRUE]
  ELSE MdEditLoop(trees, k + 1, i, Append(log, [tree |-> trees[k], edit |-> EditInputC(i)]))

\* MarkdownTree.Edit on the composite the caller holds
MdEdit(i) ==
  /\ cpc = "idle"
  /\ prev # NilMd
  /\ mpc # "panicked"
  /\ minput' = i
  /\ mbefore' = prev
  /\ mafter' = prev
  /\ LET r == MdEditLoop(TreesOf(prev), 1, i, <<>>)
     IN /\ mlog' = r.log
        /\ mpc' = IF r.panic THEN "panicked" ELSE "edited"
  /\ UNCHANGED mclosed
  /\ UNCHANGED <<cvars, qvars, pvars, evars, rvars>>

\* Close on a tree of the composite, reached through BlockTree or InlineTrees
MdClose(tree) ==
  /\ cpc = "idle"
  /\ prev # NilMd
  /\ mpc # "panicked"
  /\ tree \notin mclosed
  /\ mclosed' = mclosed \cup {tree}
  /\ UNCHANGED <<mpc, minput, mlog, mbefore, mafter>>
  /\ UNCHANGED <<cvars, qvars, pvars, evars, rvars>>

\* documents with up to MaxAnchors anchor regions of one byte, without children
MdDocs == {d \in EditDocs : \A k \in DOMAIN d : /\ d[k].StartByte = k - 1
                                               /\ d[k].EndByte = k
                                               /\ d[k].children = <<>>}

InitMdEdit == ComposeIdle /\ QueryIdle /\ ParserIdle /\ EditIdle /\ MdEditIdle /\ InputIdle

\* ParseCtx calls that build and rebuild the composite, then edits of it and
\* closes of its trees (an edit or a close has no effect on a later ParseCtx)
NextMdEdit ==
  \/ /\ cpc = "idle" /\ ncalls < MaxCalls /\ mpc = "idle" /\ mclosed = {}
     /\ \E doc \in MdDocs, old \in {NilMd, prev}, outcome \in Outcomes :
          ParseCtxPrimary(old, doc, outcome)
  \/ \E outcome \in Outcomes : ParseCtxInline(outcome)
  \/ ParseCtxReturn
  \/ /\ cpc = "idle" /\ prev # NilMd /\ mpc # "panicked"
     /\ \E i \in MdEditInputs : MdEdit(i)
  \/ /\ cpc = "idle" /\ prev # NilMd
     /\ \E k \in DOMAIN TreesOf(prev) : MdClose(TreesOf(prev)[k])

SpecMdEdit == InitMdEdit /\ [][NextMdEdit]_vars

InitQuery == ComposeIdle /\ QueryIdle /\ ParserIdle /\ EditIdle /\ MdEditIdle /\ InputIdle

NextQuery ==
  \/ /\ qpc = "start"
     /\ \/ \E text \in QueryTexts : NewQuery(text, TSQueryOk)
        \/ \E ts \in TSQueryErrors : NewQuery(<<>>, ts)
  \/ /\ qpc = "compiled"
     /\ \E input \in Sources :
          \E caps \in SeqsUpTo(Captures(input), MaxCaptures), id \in MatchIDs,
             pi \in 0..(PatternCount(query) - 1) :
            FilterPredicates([ID |-> id, PatternIndex |-> pi, Captures |-> caps], input)

SpecQuery == InitQuery /\ [][NextQuery]_vars

InitParse ==
  ComposeIdle /\ QueryIdle /\ EditIdle /\ MdEditIdle /\ InputIdle /\ ParserNew /\ hasLang \in BOOLEAN /\ opLimit \in BOOLEAN

NextParse ==
  \/ \E cancellable \in BOOLEAN, cancelled \in BOOLEAN :
       (cancelled => cancellable) /\ ParseBegin(cancellable, cancelled)
  \/ \E k \in Calls : CancelCtx(k)
  \/ \E k \in Calls : WatcherSelect(k)
  \/ \E k \in Calls : WatcherStore(k)
  \/ \E outcome \in {"tree", "cancel", "limit", "nolang"} : EngineReturn(outcome)
  \/ ParseClose
  \/ ParseConvert
  \/ ParseReset
  \/ Reset

SpecParse == InitParse /\ [][NextParse]_vars

\* the goroutine of Parse and the watcher goroutines are scheduled: a watcher
\* whose select has a ready case takes one, a watcher past its select stores,
\* and Parse goes on from the engine's return to close(parseComplete)
ParseFairness ==
  /\ WF_vars(ParseClose)
  /\ \A k \in Calls : WF_vars(WatcherSelect(k)) /\ WF_vars(WatcherStore(k))

SpecParseLive == InitParse /\ [][NextParse]_vars /\ ParseFairness

InitInput ==
  /\ ComposeIdle /\ QueryIdle /\ ParserIdle /\ EditIdle /\ MdEditIdle
  /\ readFuncs \in {[funcs |-> NoFuncs, count |-> n] : n \in StartCounts}
  /\ intSize \in {32, 64}
  /\ ipc = [c \in Inputs |-> "start"]
  /\ funcID = [c \in Inputs |-> GoZero]
  /\ lookup = [c \in Inputs |-> NoLookup]
  /\ nreads = [c \in Inputs |-> 0]
  /\ itree = [c \in Inputs |-> FALSE]
  /\ iresult = [c \in Inputs |-> [tree |-> FALSE, err |-> "none"]]

\* concurrent ParseInput calls: any interleaving of their steps
NextInput ==
  \/ \E c \in Inputs : InputRegister(c)
  \/ \E c \in Inputs : callReadFunc(c)
  \/ \E c \in Inputs, tree \in BOOLEAN : InputEngineReturn(c, tree)
  \/ \E c \in Inputs : InputUnregister(c)
  \/ \E c \in Inputs, cancelled \in BOOLEAN, lang \in BOOLEAN : InputConvert(c, cancelled, lang)

SpecInput == InitInput /\ [][NextInput]_vars

InitEdit == ComposeIdle /\ QueryIdle /\ ParserIdle /\ EditIdle /\ MdEditIdle /\ InputIdle

\* edits of a tree and of a node of it
NextEdit ==
  \/ /\ epc # "panicked"
     /\ \E i \in EditInputs : TreeEdit(i)
  \/ /\ epc # "panicked"
     /\ \E i \in EditInputs : NodeEdit(i)
  \/ TreeClose

SpecEdit == InitEdit /\ [][NextEdit]_vars

(***************************************************************************)
(* Properties of ParseCtx                                                  *)
(***************************************************************************)
RECURSIVE GapLoop(_, _, _, _)
\* the gaps of a node outside its named children: from the cursor to the start
\* of each child, then from the end of the last child to the end of the node
GapLoop(node, i, cursor, gaps) ==
  IF i <= Len(node.children)
  THEN GapLoop(node, i + 1, node.children[i].EndByte,
               Append(gaps, <<cursor, node.children[i].StartByte>>))
  ELSE Append(gaps, <<cursor, node.EndByte>>)

ByteSpans(ranges) == [i \in DOMAIN ranges |-> <<ranges[i].StartByte, ranges[i].EndByte>>]

\* C1: the range set handed to the secondary parse of an anchor is exactly the
\* gaps of the anchor's span outside its named children, so no byte of a named
\* child is included ([0,8) with children [2,4) [5,7) gives [0,2) [4,5) [7,8))
C1_GapsOnly ==
  lastCall # NoCall =>
    /\ ByteSpans(lastCall.ranges) = GapLoop(lastCall.anchor, 1, lastCall.anchor.StartByte, <<>>)
    /\ \A i \in DOMAIN lastCall.ranges, j \in DOMAIN lastCall.anchor.children :
         \/ lastCall.ranges[i].EndByte <= lastCall.anchor.children[j].StartByte
         \/ lastCall.anchor.children[j].EndByte <= lastCall.ranges[i].StartByte

\* C2: the i-th anchor is parsed with the previous composite's i-th secondary
\* tree as old tree when there is one, and with no old tree otherwise
C2_OldByOrdinal ==
  \A i \in DOMAIN oldUsed :
    oldUsed[i] = IF oldTree # NilMd /\ i <= Len(oldTree.inlineTrees)
                 THEN oldTree.inlineTrees[i] ELSE 0

\* two anchors A then B rebuilt from a previous composite with two secondary
\* trees: A reuses A's tree, B reuses B's, under new node identities
C2_Witness ==
  /\ cpc = "matching"
  /\ oldTree # NilMd
  /\ Len(oldTree.inlineTrees) = 2
  /\ Len(oldUsed) = 2
  /\ oldUsed[1] = oldTree.inlineTrees[1]
  /\ oldUsed[2] = oldTree.inlineTrees[2]
  /\ oldUsed[1] # oldUsed[2]
  /\ DOMAIN res.inlineIndices \cap DOMAIN oldTree.inlineIndices = {}

(***************************************************************************)
(* Properties of NewQuery and FilterPredicates                             *)
(***************************************************************************)
\* the nodes bound to a capture name in the match, in capture order
Bound(name) ==
  LET sel == SelectSeq(fmatch.Captures, LAMBDA c : CaptureNameForId(c.Index) = name)
  IN [i \in DOMAIN sel |-> sel[i].Node]

\* the source bytes of a node of the filtered match
TextOf(n) == SubSeq(finput, n.StartByte + 1, n.EndByte)

\* the query text is one pattern with the single invocation `op arg1 arg2`
OnlyPredicate(op, arg1, arg2) ==
  /\ Len(qsrc) = 1
  /\ Len(qsrc[1]) = 4
  /\ qsrc[1][2] = arg1
  /\ qsrc = <<Invocation(StringStep(op), <<arg1, arg2>>)>>

\* FilterPredicates returned, and returned the captures of the match
Returned == qpc = "filtered"
Accepted == Returned /\ fres.Captures = fmatch.Captures /\ fmatch.Captures # <<>>
Rejected == Returned /\ fres.Captures = <<>> /\ fmatch.Captures # <<>>

\* C3: with the only predicate `eq? @x @y`, a match is accepted iff x and y are
\* both bound and the bytes of the two nodes are equal; a match in which one of
\* them is not bound is rejected
C3_EqBothBound ==
  \A x \in 0..1, y \in 0..1 :
    LET bx == Bound(CaptureNameForId(x))
        by == Bound(CaptureNameForId(y))
    IN (/\ Returned
        /\ OnlyPredicate("eq?", CaptureStep(x), CaptureStep(y))
        /\ fmatch.Captures # <<>>
        /\ Len(bx) <= 1 /\ Len(by) <= 1)
       => (Accepted <=> (Len(bx) = 1 /\ Len(by) = 1 /\ TextOf(bx[1]) = TextOf(by[1])))

\* whether the regular expression `^r` (the text starts with r) matches
StartsWithR(text) == text # <<>> /\ text[1] = "r"

\* C4: with the only predicate `match? @x "^r"` a match is accepted iff the
\* regular expression matches the text of every node bound to x, and with
\* `not-match? @x "^r"` iff it matches none of them; with one binding the two
\* verdicts are opposite ("red": match? passes, not-match? fails; "blue": reverse)
C4_MatchEvery ==
  \A x \in 0..1 :
    LET bx == Bound(CaptureNameForId(x))
    IN /\ (Returned /\ OnlyPredicate("match?", CaptureStep(x), StringStep("^r")))
            => fres.Captures = IF \A i \in DOMAIN bx : StartsWithR(TextOf(bx[i]))
                               THEN fmatch.Captures ELSE <<>>
       /\ (Returned /\ OnlyPredicate("not-match?", CaptureStep(x), StringStep("^r")))
            => fres.Captures = IF \A i \in DOMAIN bx : ~StartsWithR(TextOf(bx[i]))
                               THEN fmatch.Captures ELSE <<>>
       /\ (Returned /\ Len(bx) = 1 /\ TextOf(bx[1]) = <<"r", "e", "d">>)
            => /\ OnlyPredicate("match?", CaptureStep(x), StringStep("^r")) => Accepted
               /\ OnlyPredicate("not-match?", CaptureStep(x), StringStep("^r")) => Rejected
       /\ (Returned /\ Len(bx) = 1 /\ TextOf(bx[1]) = <<"b", "l", "u", "e">>)
            => /\ OnlyPredicate("match?", CaptureStep(x), StringStep("^r")) => Rejected
               /\ OnlyPredicate("not-match?", CaptureStep(x), StringStep("^r")) => Accepted

\* capture a bound to "red" and to "blue": match? `^r` rejects the match
C4_Witness ==
  /\ Rejected
  /\ OnlyPredicate("match?", CaptureStep(0), StringStep("^r"))
  /\ Len(Bound("a")) = 2
  /\ TextOf(Bound("a")[1]) = <<"r", "e", "d">>
  /\ TextOf(Bound("a")[2]) = <<"b", "l", "u", "e">>

Recognized == {"eq?", "not-eq?", "match?", "not-match?", "set!", "is?", "is-not?"}

\* an invocation that begins with a literal operator name that is not recognized
Unrecognized(steps) ==
  /\ steps[1].Type = QueryPredicateStepTypeString
  /\ StringValueForId(steps[1].ValueId) \notin Recognized

\* the steps of a pattern without its unrecognized invocations
WithoutUnrecognized(pattern) ==
  Flatten(SelectSeq(splitPredicates(pattern), LAMBDA steps : ~Unrecognized(steps)))

\* C5: an invocation of an unrecognized operator is accepted by NewQuery
\* whatever its arguments, and never makes FilterPredicates reject a match: the
\* outcome is that of the same patterns without the invocation
C5_UnknownPassThrough ==
  LET reduced == [ok |-> TRUE, patterns |-> [i \in DOMAIN qsrc |-> WithoutUnrecognized(qsrc[i])]]
  IN /\ (qpc # "start" /\ qerr.type # "QueryError") => qerr = ValidateLoop(reduced, 0)
     /\ Returned =>
          LET predicates == PredicatesForPattern(reduced, fmatch.PatternIndex)
          IN fres.Captures =
               IF \A i \in DOMAIN predicates :
                    EvalPredicate(predicates[i], fmatch.Captures, finput).pass
               THEN fmatch.Captures ELSE <<>>

\* `any-of?` with three arguments, on a match with captures: accepted
C5_Witness ==
  /\ Accepted
  /\ Len(qsrc) = 1
  /\ Len(qsrc[1]) = 5
  /\ Unrecognized(qsrc[1])
  /\ qsrc[1][2].Type = QueryPredicateStepTypeString
  /\ qsrc[1][3].Type = QueryPredicateStepTypeCapture

\* C6: the result carries the ID and PatternIndex of the match, and its captures
\* are all the captures of the match in order when the pattern has no predicate
\* or every invocation passes, and none when some invocation fails
C6_AllOrNothing ==
  Returned =>
    LET predicates == PredicatesForPattern(query, fmatch.PatternIndex)
    IN /\ fres.ID = fmatch.ID
       /\ fres.PatternIndex = fmatch.PatternIndex
       /\ fres.Captures \in {fmatch.Captures, <<>>}
       /\ (\A i \in DOMAIN predicates :
             EvalPredicate(predicates[i], fmatch.Captures, finput).pass)
            => fres.Captures = fmatch.Captures
       /\ (\E i \in DOMAIN predicates :
             ~EvalPredicate(predicates[i], fmatch.Captures, finput).pass)
            => fres.Captures = <<>>

\* two invocations that pass, on a match of the second pattern with three
\* captures, one of them under a name the predicates do not use first
C6_Witness ==
  /\ Accepted
  /\ Len(splitPredicates(qsrc[1])) = 2
  /\ Len(fmatch.Captures) = 3
  /\ fmatch.Captures[1].Index = 1
  /\ fmatch.Captures[2].Index = 0
  /\ fres = fmatch

\* number of arguments of an invocation: its steps without operator and Done
ArgCount(steps) == Len(steps) - 2

\* an invocation of a recognized operator with an argument count that operator
\* does not allow
WrongArity(steps) ==
  /\ steps[1].Type = QueryPredicateStepTypeString
  /\ LET operator == StringValueForId(steps[1].ValueId)
     IN \/ operator \in {"eq?", "not-eq?", "match?", "not-match?"} /\ ArgCount(steps) # 2
        \/ operator \in {"set!", "is?", "is-not?"} /\ (ArgCount(steps) = 0 \/ ArgCount(steps) > 2)

\* C7: NewQuery returns no Query and an error for every text with an invocation
\* of eq?, not-eq?, match?, not-match? that has not exactly 2 arguments, or of
\* set!, is?, is-not? that has 0 or more than 2; the error of such an invocation
\* is the wrong-number-of-arguments error and names the operator
C7_WrongArityFails ==
  qpc # "start" =>
    /\ (\E i \in DOMAIN qsrc : \E j \in DOMAIN splitPredicates(qsrc[i]) :
          WrongArity(splitPredicates(qsrc[i])[j]))
         => qpc = "failed" /\ query = NilQuery /\ qerr # NoError
    /\ (Len(qsrc) = 1 /\ Len(splitPredicates(qsrc[1])) = 1 /\ WrongArity(qsrc[1]))
         => /\ qerr.kind = "wrong number of arguments"
            /\ qerr.operator = StringValueForId(qsrc[1][1].ValueId)
            /\ qerr.got = ToString(ArgCount(qsrc[1]))

\* `eq?` with three arguments, the first a capture: rejected, the error names eq?
C7_Witness ==
  /\ qpc = "failed"
  /\ Len(qsrc) = 1
  /\ Len(qsrc[1]) = 5
  /\ qsrc[1][1] = StringStep("eq?")
  /\ qsrc[1][2].Type = QueryPredicateStepTypeCapture
  /\ qerr.operator = "eq?"
  /\ qerr.got = "3"

\* C8: NewQuery accepts a set!, is? or is-not? invocation with one argument that
\* is a literal string, and one with two arguments whose first is a literal string
C8_PropertyOneOrTwo ==
  (/\ qpc # "start"
   /\ Len(qsrc) = 1
   /\ Len(splitPredicates(qsrc[1])) = 1
   /\ qsrc[1][1].Type = QueryPredicateStepTypeString
   /\ StringValueForId(qsrc[1][1].ValueId) \in {"set!", "is?", "is-not?"}
   /\ ArgCount(qsrc[1]) \in {1, 2}
   /\ qsrc[1][2].Type = QueryPredicateStepTypeString)
  => qpc # "failed" /\ query # NilQuery

(***************************************************************************)
(* Properties of Parser.Parse                                              *)
(***************************************************************************)
\* C9: once a Parse call has returned the context's error, the cancellation
\* flag is 0 while no later Parse runs, whatever the watchers do
C9_FlagClearAfterCancel ==
  (ppc = "idle" /\ pcall > 0 /\ presult[pcall].err = "ctxErr") => cancel = 0

\* C10: when the engine returned no tree, Parse reports what stopped the
\* engine: the context's error only for a stop through the flag set for this
\* call's context, ErrNoLanguage only without a language, ErrOperationLimit
\* only when the operation limit ran out
C10_ErrorIsCause ==
  (ppc = "idle" /\ pcall > 0 /\ ~presult[pcall].tree) =>
    /\ presult[pcall].err = "ctxErr" => tsTree.cause = "cancel" /\ tsTree.by = pcall
    /\ presult[pcall].err = "ErrNoLanguage" => tsTree.cause = "nolang"
    /\ presult[pcall].err = "ErrOperationLimit" => tsTree.cause = "limit"

(***************************************************************************)
(* Properties of ParseCtx: failures                                        *)
(***************************************************************************)
\* C11: when the primary parse or a secondary parse fails, ParseCtx returns no
\* composite (nil) and the error of that parse, however many secondary trees
\* it had built; the previous composite handed in is the caller's, unchanged
C11_FailureReturnsNothing ==
  (cpc = "idle" /\ perr # "none") =>
    /\ ret.tree = NilMd
    /\ ret.err = perr
    /\ oldTree \in {NilMd, prev}

\* the second anchor's parse fails after the first secondary tree was built,
\* in a rebuild from a previous composite with two secondary trees
C11_Witness ==
  /\ cpc = "idle"
  /\ perr = "ctxErr"
  /\ ret.err = "ctxErr"
  /\ Len(res.inlineTrees) = 1
  /\ Len(oldUsed) = 2
  /\ oldTree # NilMd
  /\ oldTree = prev
  /\ Len(prev.inlineTrees) = 2

\* C12: the value returned for a failed primary parse differs from the value
\* returned for a failed secondary parse with the same error, so the caller
\* can tell whether re-anchoring had begun (oldUsed is empty iff it had not)
C12_FailureStageVisible ==
  (cpc = "idle" /\ perr # "none") =>
    ret # (IF oldUsed = <<>> THEN InlineError(res, perr) ELSE PrimaryError(perr))

(***************************************************************************)
(* Properties of Tree.Edit and Node.Edit                                   *)
(***************************************************************************)
\* C13: the descriptor handed to the engine carries the six fields of the
\* caller's EditInput unchanged; in particular its new end point is
\* EditInput.NewEndPoint
C13_EditFieldsCarried ==
  epc = "edited" =>
    /\ tsEdit.start_byte = einput.StartIndex
    /\ tsEdit.old_end_byte = einput.OldEndIndex
    /\ tsEdit.new_end_byte = einput.NewEndIndex
    /\ tsEdit.start_point = [row |-> einput.StartPoint.Row, column |-> einput.StartPoint.Column]
    /\ tsEdit.old_end_point = [row |-> einput.OldEndPoint.Row, column |-> einput.OldEndPoint.Column]
    /\ tsEdit.new_end_point = [row |-> einput.NewEndPoint.Row, column |-> einput.NewEndPoint.Column]

(***************************************************************************)
(* Properties of NewQuery: the errors, and what is left to match time      *)
(***************************************************************************)
\* C14: every failure of NewQuery returns no Query and a *QueryError, which
\* carries a byte offset, an error category and a message; this includes a
\* predicate that does not begin with a literal, a wrong argument count and a
\* wrong argument kind
C14_FailureIsQueryError ==
  qpc = "failed" =>
    /\ query = NilQuery
    /\ qerr.type = "QueryError"
    /\ {"Offset", "Type", "Message"} \subseteq DOMAIN qerr

\* C15: FilterPredicates returns a result for every match of a Query that
\* NewQuery returned, and never panics: a match?/not-match? second argument that
\* is not a regular expression was refused by NewQuery
C15_NoPanicAtMatchTime ==
  /\ qpc # "panicked"
  /\ (qpc \in {"compiled", "filtered"}) =>
       \A i \in DOMAIN qsrc : \A j \in DOMAIN splitPredicates(qsrc[i]) :
         LET steps == splitPredicates(qsrc[i])[j]
         IN (/\ steps[1].Type = QueryPredicateStepTypeString
             /\ StringValueForId(steps[1].ValueId) \in {"match?", "not-match?"})
            => RegexCompile(StringBytes[steps[3].ValueId + 1]).valid

(***************************************************************************)
(* Properties of the eq? family and of the argument kinds                  *)
(***************************************************************************)
\* C18: on a match in which the captures x and y are both bound, eq? @x @y and
\* eq? @y @x give the same verdict, so do not-eq? @x @y and not-eq? @y @x, and
\* the not-eq? verdict is the opposite of the eq? verdict; with one binding each,
\* eq? passes iff the two byte spans are equal, whatever the capture order
C18_EqSymmetricOpposite ==
  \A x \in 0..1, y \in 0..1, op \in {"eq?", "not-eq?"} :
    LET bx == Bound(CaptureNameForId(x))
        by == Bound(CaptureNameForId(y))
        verdict(o, l, r) ==
          EvalPredicate(Invocation(StringStep(o), <<CaptureStep(l), CaptureStep(r)>>),
                        fmatch.Captures, finput).pass
    IN (/\ Returned
        /\ OnlyPredicate(op, CaptureStep(x), CaptureStep(y))
        /\ Len(bx) >= 1 /\ Len(by) >= 1)
       => /\ Accepted = verdict(op, x, y)
          /\ verdict(op, x, y) = verdict(op, y, x)
          /\ verdict("not-eq?", x, y) = ~verdict("eq?", x, y)
          /\ (Len(bx) = 1 /\ Len(by) = 1)
               => (Accepted <=> ((TextOf(bx[1]) = TextOf(by[1])) = (op = "eq?")))

\* not-eq? @b @a on a match that lists a ("red") before b ("blue"): accepted
C18_Witness ==
  /\ Accepted
  /\ OnlyPredicate("not-eq?", CaptureStep(1), CaptureStep(0))
  /\ Len(fmatch.Captures) = 2
  /\ fmatch.Captures[1].Index = 0
  /\ fmatch.Captures[2].Index = 1
  /\ TextOf(fmatch.Captures[1].Node) = <<"r", "e", "d">>
  /\ TextOf(fmatch.Captures[2].Node) = <<"b", "l", "u", "e">>

\* C19: with the only predicate eq? @a "red" and a bound to one node, the match
\* is accepted iff the bytes of the node are exactly r, e, d; with not-eq? iff
\* they are not
C19_EqLiteralExact ==
  \A op \in {"eq?", "not-eq?"} :
    (/\ Returned
     /\ OnlyPredicate(op, CaptureStep(0), StringStep("red"))
     /\ Len(Bound("a")) = 1)
    => (Accepted <=> ((TextOf(Bound("a")[1]) = <<"r", "e", "d">>) = (op = "eq?")))

\* eq? @a "red" with a bound to the node "Red": rejected
C19_Witness ==
  /\ Rejected
  /\ OnlyPredicate("eq?", CaptureStep(0), StringStep("red"))
  /\ Len(Bound("a")) = 1
  /\ TextOf(Bound("a")[1]) = <<"R", "e", "d">>

\* an invocation NewQuery refuses for the kind of a step: a capture as first
\* step, a first argument of the eq?/match? family that is not a capture, a
\* second argument of match?/not-match? that is not a string
WrongStepKind(steps) ==
  \/ steps[1].Type = QueryPredicateStepTypeCapture
  \/ /\ steps[1].Type = QueryPredicateStepTypeString
     /\ StringValueForId(steps[1].ValueId) \in {"eq?", "not-eq?", "match?", "not-match?"}
     /\ steps[2].Type # QueryPredicateStepTypeCapture
  \/ /\ steps[1].Type = QueryPredicateStepTypeString
     /\ StringValueForId(steps[1].ValueId) \in {"match?", "not-match?"}
     /\ Len(steps) >= 3
     /\ steps[3].Type # QueryPredicateStepTypeString

\* C20: NewQuery returns an error and no Query for a text with an invocation
\* that begins with a capture, an eq?/not-eq?/match?/not-match? whose first
\* argument is not a capture, or a match?/not-match? whose second argument is
\* not a string; eq?/not-eq? with a capture and then a capture or a string is
\* accepted
C20_ArgumentKinds ==
  (qpc # "start" /\ qerr.type # "QueryError") =>
    /\ (\E i \in DOMAIN qsrc :
          LET invocations == splitPredicates(qsrc[i])
          IN \E j \in DOMAIN invocations : WrongStepKind(invocations[j]))
         => qpc = "failed" /\ query = NilQuery /\ qerr # NoError
    /\ \A op \in {"eq?", "not-eq?"}, x \in 0..1 :
         \A second \in {CaptureStep(0), CaptureStep(1), StringStep("red")} :
           OnlyPredicate(op, CaptureStep(x), second) => qpc # "failed" /\ query # NilQuery

\* match? @a @a: refused, the second argument must be a string
C20_Witness ==
  /\ qpc = "failed"
  /\ OnlyPredicate("match?", CaptureStep(0), CaptureStep(0))
  /\ query = NilQuery
  /\ qerr.kind = "second argument must be a string"

(***************************************************************************)
(* Properties of the composite tree: lookup and walk                       *)
(***************************************************************************)
RECURSIVE PreOrder(_)
\* the named nodes below and including n: n first, then each child's nodes,
\* children in index order
PreOrder(n) ==
  LET Rest[i \in 0..Len(n.children)] ==
        IF i = 0 THEN <<>> ELSE Rest[i - 1] \o PreOrder(n.children[i])
  IN <<n>> \o Rest[Len(n.children)]

\* the secondary tree parsed from the anchor with identity id by the last
\* ParseCtx, 0 when no secondary parse was made for that node
ParsedFrom(id) ==
  IF \E i \in DOMAIN anchored : anchored[i].anchor = id
  THEN anchored[CHOOSE i \in DOMAIN anchored : anchored[i].anchor = id].tree
  ELSE 0

\* the last ParseCtx call returned a composite
Succeeded == cpc = "idle" /\ ncalls > 0 /\ perr = "none"

\* C16: after a successful ParseCtx the composite has one secondary tree per
\* anchor capture of the new primary tree, in match order; the table maps the
\* identity of the i-th anchor to i and every stored index is below the number
\* of secondary trees; InlineTree gives the tree parsed from exactly the node
\* asked for, and nil for the null node and for primary nodes that are no anchor
C16_OneTreePerAnchor ==
  Succeeded =>
    LET t == ret.tree
        nodes == PreOrder(block.root)
    IN /\ ret.err = "none"
       /\ t.blockTree = block.tree
       /\ Len(t.inlineTrees) = Len(block.captures)
       /\ Len(anchored) = Len(block.captures)
       /\ \A i \in DOMAIN block.captures :
            /\ anchored[i].anchor = block.captures[i]
            /\ t.inlineTrees[i] = anchored[i].tree
            /\ block.captures[i] \in DOMAIN t.inlineIndices
            /\ t.inlineIndices[block.captures[i]] = i - 1
       /\ \A k \in DOMAIN t.inlineIndices :
            t.inlineIndices[k] \in 0..(Len(t.inlineTrees) - 1)
       /\ InlineTree(t, NullNode) = 0
       /\ \A j \in DOMAIN nodes :
            /\ InlineTree(t, nodes[j]) = ParsedFrom(nodes[j].id)
            /\ (\A i \in DOMAIN block.captures : block.captures[i] # nodes[j].id)
                 => InlineTree(t, nodes[j]) = 0

\* a composite with two anchors rebuilt from a previous one, the second anchor
\* with a named child: four primary nodes are no anchors
C16_Witness ==
  /\ Succeeded
  /\ oldTree # NilMd
  /\ Len(ret.tree.inlineTrees) = 2
  /\ Len(block.root.children) = 2
  /\ Len(block.root.children[2].children[1].children) = 1
  /\ InlineTree(ret.tree, block.root.children[2].children[1]) = ret.tree.inlineTrees[2]
  /\ InlineTree(ret.tree, block.root.children[2]) = 0

\* C17: Iter calls the visitor on the primary root first and then on the named
\* nodes in depth-first pre-order, each node once, with the root of the
\* secondary tree anchored at the node or the null node when there is none;
\* after the visitor answered false no further node is visited
C17_IterPreOrderStops ==
  visited # <<>> =>
    LET nodes == PreOrder(block.root)
    IN /\ visited[1].node.Node = block.root
       /\ Len(visited) <= Len(nodes)
       /\ \A i \in DOMAIN visited :
            /\ visited[i].node.Node = nodes[i]
            /\ visited[i].node.Inline =
                 (IF ParsedFrom(nodes[i].id) = 0 THEN NullNode
                  ELSE RootNode(ParsedFrom(nodes[i].id)))
            /\ \A j \in DOMAIN visited : visited[j].node.Node.id = visited[i].node.Node.id => j = i
            /\ i < Len(visited) => visited[i].goNext
       /\ visited[Len(visited)].goNext => Len(visited) = Len(nodes)

\* a walk over two anchor regions that the visitor stops at the second block
\* node, after the first anchor was passed with its secondary root
C17_Witness ==
  /\ visited # <<>>
  /\ Len(PreOrder(block.root)) >= 6
  /\ Len(visited) = 5
  /\ ~visited[5].goNext
  /\ visited[3].node.Inline # NullNode
  /\ visited[4].node.Inline = NullNode
  /\ visited[4].node.Node.id = ChildID(block.tree, 0, 0)
  /\ visited[5].node.Node.id = BlockID(block.tree, 1)

(***************************************************************************)
(* Properties of FilterPredicates: several bindings, several predicates    *)
(***************************************************************************)
\* C21: with the only predicate `eq? @x @y` (or not-eq?) and both names bound,
\* the nodes compared are the first node bound to x and the first node bound
\* to y in capture order, so the match is accepted iff the equality of those
\* two texts agrees with the operator
C21_EqFirstBinding ==
  \A op \in {"eq?", "not-eq?"}, x \in 0..1, y \in 0..1 :
    LET bx == Bound(CaptureNameForId(x))
        by == Bound(CaptureNameForId(y))
    IN (Returned /\ OnlyPredicate(op, CaptureStep(x), CaptureStep(y))
          /\ Len(bx) > 0 /\ Len(by) > 0)
         => fres.Captures = IF (TextOf(bx[1]) = TextOf(by[1])) = (op = "eq?")
                            THEN fmatch.Captures ELSE <<>>

\* C24: FilterPredicates stops at the first invocation that fails, so every
\* invocation it evaluated except the last one passed
C24_StopAtFirstFailure ==
  (qpc \in {"filtered", "panicked"} /\ fevals # <<>>) =>
    LET predicates == PredicatesForPattern(query, fmatch.PatternIndex)
    IN \A k \in DOMAIN fevals :
         k < Len(fevals) => EvalPredicate(predicates[fevals[k]], fmatch.Captures, finput).pass

(***************************************************************************)
(* Properties of ParseCtx: shape of the range set                          *)
(***************************************************************************)
\* C22: the range set handed to SetIncludedRanges for an anchor has one range
\* per named child plus one, every range has start <= end, every range starts
\* at or after the end of the one before, the first starts at the anchor's
\* start and the last ends at the anchor's end
C22_RangesOrdered ==
  lastCall # NoCall =>
    LET rs == lastCall.ranges
        a == lastCall.anchor
    IN /\ Len(rs) = NamedChildCount(a) + 1
       /\ \A i \in DOMAIN rs : rs[i].StartByte <= rs[i].EndByte
       /\ \A i \in DOMAIN rs : i > 1 => rs[i].StartByte >= rs[i - 1].EndByte
       /\ rs[1].StartByte = a.StartByte
       /\ rs[Len(rs)].EndByte = a.EndByte

\* an anchor with two named children that do not touch each other or its ends
C22_Witness ==
  /\ lastCall # NoCall
  /\ NamedChildCount(lastCall.anchor) = 2
  /\ Len(lastCall.ranges) = 3
  /\ lastCall.anchor.StartByte < NamedChild(lastCall.anchor, 0).StartByte
  /\ NamedChild(lastCall.anchor, 0).EndByte < NamedChild(lastCall.anchor, 1).StartByte
  /\ NamedChild(lastCall.anchor, 1).EndByte < lastCall.anchor.EndByte

(***************************************************************************)
(* Properties of MarkdownTree.Edit                                         *)
(***************************************************************************)
\* C23: a MarkdownTree.Edit that returns has handed the descriptor of its
\* EditInput to ts_tree_edit once for the primary tree and once for each
\* secondary tree of the composite, the same descriptor each time, and the
\* composite has the same secondary trees in the same order and the same
\* lookup table as before the call
C23_EditEveryTreeOnce ==
  mpc = "edited" =>
    LET trees == TreesOf(mbefore)
    IN /\ Len(mlog) = Len(trees)
       /\ \A k \in DOMAIN trees :
            /\ Cardinality({j \in DOMAIN mlog : mlog[j].tree = trees[k]}) = 1
            /\ mlog[k].tree = trees[k]
       /\ \A j \in DOMAIN mlog : mlog[j].edit = EditInputC(minput)
       /\ \A j \in DOMAIN mlog : mlog[j].edit = mlog[1].edit
       /\ mafter.inlineTrees = mbefore.inlineTrees
       /\ mafter.inlineIndices = mbefore.inlineIndices
       /\ mafter.blockTree = mbefore.blockTree

\* an insertion of one byte at offset 1 applied to a composite with two
\* secondary trees: three trees receive it
C23_Witness ==
  /\ mpc = "edited"
  /\ Len(mbefore.inlineTrees) = 2
  /\ Len(mlog) = 3
  /\ minput.StartIndex = 1
  /\ minput.OldEndIndex = 1
  /\ minput.NewEndIndex = 2
  /\ mlog[3].tree = mbefore.inlineTrees[2]
  /\ mlog[3].edit.new_end_byte = 2

(***************************************************************************)
(* Properties of Parser.Parse: resuming, stale flag, watchers              *)
(***************************************************************************)
\* C25: the Parse that follows a Parse that returned the context's error does
\* not resume the interrupted parse
C25_FreshAfterCancel ==
  \A k \in Calls :
    (1 < k /\ k <= pcall /\ presult[k - 1].err = "ctxErr") => ~resumed[k]

\* C27: after a Parse that returned a tree and whose context was cancelled only
\* after the engine had returned that tree, a Parse under a context that cannot be cancelled, with a language and no
\* operation limit, returns a tree
C27_TreeAfterRace ==
  \A k \in Calls :
    (1 < k /\ k <= pcall /\ (k < pcall \/ ppc = "idle")
       /\ presult[k - 1].tree /\ ctx[k - 1].cancelled /\ ctx[k - 1].late
       /\ ~ctx[k].cancellable /\ hasLang /\ ~opLimit)
      => presult[k].tree /\ presult[k].err = "none"

\* the engine call of Parse number k has returned
EngineDone(k) == k < pcall \/ (k = pcall /\ ppc # "engine")

\* the watcher of Parse number k was started, the engine call has returned and
\* the watcher has not terminated (once true, this stays true until it does)
WatcherOutlives(k) == watcher[k] # "none" /\ EngineDone(k) /\ watcher[k] # "exit"

\* C28: the watcher goroutine of a Parse with a cancellable context terminates
\* once the engine call of that Parse has returned, cancelled or not: no
\* watcher outlives its Parse for ever
C28_WatcherTerminates ==
  \A k \in Calls : []<>(~WatcherOutlives(k))

\* the watcher of a Parse whose context was never cancelled has left through
\* the closed channel
C28_Witness ==
  /\ pcall = 1
  /\ ppc = "idle"
  /\ ctx[1].cancellable
  /\ ~ctx[1].cancelled
  /\ complete[1]
  /\ watcher[1] = "exit"
  /\ presult[1].tree

\* the byte offset at which the line holding offset o of the text starts: just
\* after the last newline before o
LineStartOf(text, o) ==
  LET nl == {i \in 1..o : i <= Len(text) /\ text[i] = "\n"}
  IN IF nl = {} THEN 0 ELSE CHOOSE i \in nl : \A j \in nl : j <= i

\* the source line that starts at offset b of the text, without its newline
LineAt(text, b) == FirstLine(SubSeq(text, b + 1, Len(text)))

\* C26: for a positional compile error (syntax, structure or language) at byte
\* offset o of a pattern, the message reports line = 1 + the number of newline
\* bytes before o and column = o minus the offset at which that line starts,
\* echoes that source line and puts the caret under that column; Offset is o
C26_PositionalMessage ==
  (qpc = "failed" /\ qerr.type = "QueryError"
     /\ qerr.Type \in {QueryErrorSyntax, QueryErrorStructure, QueryErrorLanguage}) =>
    LET o == qerr.Offset
        start == LineStartOf(qpattern, o)
    IN /\ o \in 0..Len(qpattern)
       /\ qerr.Message.line = 1 + Cardinality({i \in 1..o : qpattern[i] = "\n"})
       /\ qerr.Message.column = o - start
       /\ qerr.Message.echo = LineAt(qpattern, start)
       /\ qerr.Message.caret = qerr.Message.column

(***************************************************************************)
(* Properties of the registry of read callbacks                            *)
(***************************************************************************)
\* C29: under any interleaving of concurrent ParseInput calls, the id a call
\* registers differs from the id of every other call, also of the calls that
\* have unregistered theirs; a lookup made while the parse of a call runs
\* returns the read function of that call; and the id of a call that has
\* returned is not in the registry
C29_RegistryIsolation ==
  \A c \in Inputs :
    /\ \A d \in Inputs \ {c} :
         (ipc[c] # "start" /\ ipc[d] # "start") => funcID[c] # funcID[d]
    /\ lookup[c] \in {NoLookup, c}
    /\ ipc[c] = "returned" => funcID[c] \notin DOMAIN readFuncs.funcs

====
